---- MODULE Spec2Model ----
(***************************************************************************)
(* A model of the RIFT pipeline simulation (obinexus/rift-sim).            *)
(*                                                                         *)
(* Two programs of the repository are modelled.                            *)
(*                                                                         *)
(*  1. The standalone pipeline (src/unnamed/part_000, the C11 twin of      *)
(*     src/poc/rift_sim.c): rift_load_governance, rift_tokenizer_create,   *)
(*     rift_tokenize, rift_parse (parse_expression / parse_term /          *)
(*     parse_factor), rift_coordinate_ast and rift_generate_output.        *)
(*     Specification: Spec.                                                *)
(*                                                                         *)
(*  2. The stage-bound simulation (second program of                       *)
(*     src/gov-stage/rift-gov/escape_sequence_handler.txt):                *)
(*     config_section_add / config_section_get, load_stage_config,         *)
(*     governance_load_stage, rift_stage0_create and rift_stage0_process.  *)
(*     The [TOKEN_PATTERNS] lines that load_stage_config(0) adds stand for *)
(*     the contents of .riftrc.0; the model draws them from the shipped    *)
(*     lines and variations of them.  Specification: SpecStage.            *)
(*                                                                         *)
(* C strings are sequences of one-character strings where the code looks   *)
(* at their characters (the source text, lexemes, token values) and TLA+   *)
(* strings where the code only compares or copies them (keys, patterns,    *)
(* type names).  Pointers are indices; NULL is 0.                          *)
(***************************************************************************)
EXTENDS Integers, Sequences, FiniteSets, TLC

(***************************************************************************)
(* Bounds of the model.                                                    *)
(***************************************************************************)
\* longest source text drawn from SrcChars (the named examples are longer)
MaxSrcLen == 4
\* longest caller-supplied token stream drawn from TokenAlphabet
MaxTokens == 5
\* how many times rift_generate_output is called on one tree
MaxRenders == 2

(***************************************************************************)
(* C basics.                                                               *)
(***************************************************************************)
NULL == 0

\* the C string whose characters are the elements of s (what "%s" prints)
RECURSIVE Str(_)
Str(s) == IF s = <<>> THEN "" ELSE Head(s) \o Str(Tail(s))

\* token_type_t
TOKEN_IDENTIFIER == "TOKEN_IDENTIFIER"
TOKEN_NUMBER == "TOKEN_NUMBER"
TOKEN_OPERATOR == "TOKEN_OPERATOR"
TOKEN_WHITESPACE == "TOKEN_WHITESPACE"
TOKEN_UNKNOWN == "TOKEN_UNKNOWN"

\* ast_node_type_t
AST_IDENTIFIER == "AST_IDENTIFIER"
AST_NUMBER == "AST_NUMBER"
AST_BINARY_OP == "AST_BINARY_OP"
AST_UNARY_OP == "AST_UNARY_OP"

(***************************************************************************)
(* Characters.  The classes are those of the C locale, cut down to the     *)
(* characters the model's inputs use.                                      *)
(***************************************************************************)
Letters == {"a", "b", "c", "d", "s", "w", "x", "y"}
Digits == {"2", "5"}
SpaceChars == {" ", "\t"}
WordChars == Letters \cup Digits \cup {"_"}
Backslash == "\\"

VARIABLES
    \* ---- the standalone pipeline (part_000) ----
    pc,             \* where main (or the caller of the library) stands
    entry,          \* "main": main() drives the stages from a source text;
                    \* "api": a caller hands rift_parse a token stream
    digit_escape,   \* whether the linked regcomp reads \d as [[:digit:]]
    source_input,   \* main's source_input
    governance,     \* rift_governance_t: entries[0..count-1]
    tokenizer,      \* rift_tokenizer_t: states[0..state_count-1]
    token_str,      \* rift_tokenize's token_str (<<>> is NULL)
    strtok_save,    \* strtok's saved position: the text not yet scanned
    stream,         \* token_stream_t: tokens[0..count-1], capacity
    parser,         \* rift_parser_t: input_tokens, current_position
    frame,          \* locals of parse_expression and parse_term
    heap,           \* the ast_node_t objects allocated so far
    ast,            \* main's ast (rift_parse's return value)
    coordinator,    \* rift_ast_coordinator_t
    coordinated_ast,\* main's coordinated_ast
    output_stage,   \* rift_output_stage_t
    stdout,         \* the renderings printed so far, each a list of lines
    \* ---- the stage-bound simulation (escape_sequence_handler.txt) ----
    stage_pc,       \* where the stage-bound main stands
    riftrc,         \* the [TOKEN_PATTERNS] lines of .riftrc.0, in file order
    input,          \* main's source_input, rift_stage0_process's input
    system,         \* rift_governance_system_t
    stage0,         \* rift_stage0_processor_t
    tokens,         \* the token_stream_t rift_stage0_process builds
    stage_token_str,\* rift_stage0_process's token_str (<<>> is NULL)
    stage_save,     \* strtok's saved position in rift_stage0_process
    stage_stdout,   \* what the RIFT-3 step of the stage-bound main prints
    load_calls,     \* the calls of governance_load_stage so far: id, result,
                    \* and whether the call built a configuration
    \* ---- the escape sequence processor (escape_sequence_handler.txt) ----
    escape_pc,        \* where the user of the escape processor stands
    escape_processor, \* escape_processor_t: mappings[0..count-1], capacity
    input_pattern,    \* process_escape_pattern's input_pattern
    encoding_context, \* process_escape_pattern's encoding_context
    mapping_index,    \* process_escape_pattern's loop index i
    pattern_result,   \* the pattern_result_t process_escape_pattern builds
    applied           \* the mappings applied so far in this call, in order

simVars == <<pc, entry, digit_escape, source_input, governance, tokenizer,
             token_str, strtok_save, stream, parser, frame, heap, ast,
             coordinator, coordinated_ast, output_stage, stdout>>

stageVars == <<stage_pc, riftrc, input, system, stage0, tokens,
               stage_token_str, stage_save, stage_stdout, load_calls>>

escapeVars == <<escape_pc, escape_processor, input_pattern, encoding_context,
                mapping_index, pattern_result, applied>>

vars == <<simVars, stageVars, escapeVars>>

(***************************************************************************)
(* regcomp(REG_EXTENDED) and regexec on the patterns the programs use.     *)
(*                                                                         *)
(* A pattern is kept as the string the program holds.  The definitions     *)
(* below give, for each, what regcomp makes of it: whether it compiles,    *)
(* whether it is anchored at either end, and (RegexCore) the strings its   *)
(* body matches.  regexec searches: without an anchor the body may match   *)
(* any substring.                                                          *)
(***************************************************************************)
\* the patterns of part_000 (C literals with one level of escaping)
SimPatterns == {"^[a-zA-Z_]\\w*$", "^\\d+$", "^[+\\-*/]$", "^\\s+$"}

\* the patterns of load_stage_config (C literals with two levels of
\* escaping: the pattern text holds a backslash pair, a literal backslash)
StagePatterns ==
    {"^[a-zA-Z_]\\\\w*$", "^\\\\d+(\\\\.\\\\d+)?$", "^[+\\\\-*/=<>!&|]$", "^\\\\s+$"}

\* patterns a .riftrc.0 may give instead
OtherPatterns == {"^[0-9]+$", "^[a-z0-9]+$"}

\* a pattern a .riftrc.0 may give that is written without "^" and "$"
UnanchoredPatterns == {"[0-9]+"}

\* "^[+\-*/]$" and "^[+\\-*/=<>!&|]$": the bracket holds a range from the
\* backslash (0x5C) to "*" (0x2A), whose start is above its end: regcomp
\* fails with REG_ERANGE.
RegexCompiles(pattern) ==
    pattern \notin {"^[+\\-*/]$", "^[+\\\\-*/=<>!&|]$"}

RegexAnchoredStart(pattern) ==
    pattern \in SimPatterns \cup StagePatterns \cup OtherPatterns

RegexAnchoredEnd(pattern) ==
    pattern \in SimPatterns \cup StagePatterns \cup OtherPatterns

\* backslash d+ : a backslash and then one or more letters d
BackslashDs(s) ==
    /\ Len(s) >= 2
    /\ s[1] = Backslash
    /\ \A i \in 2..Len(s) : s[i] = "d"

\* the body of the pattern (what stands between the anchors) matches all of s
RegexCore(pattern, s) ==
    CASE pattern = "^[a-zA-Z_]\\w*$" ->
            /\ Len(s) >= 1
            /\ s[1] \in Letters \cup {"_"}
            /\ \A i \in 2..Len(s) : s[i] \in WordChars
      [] pattern = "^\\d+$" ->
            \* an escaped ordinary character is undefined in POSIX EREs:
            \* glibc matches the letter d, musl the digits
            /\ Len(s) >= 1
            /\ \A i \in 1..Len(s) :
                  s[i] \in (IF digit_escape THEN Digits ELSE {"d"})
      [] pattern = "^\\s+$" ->
            /\ Len(s) >= 1
            /\ \A i \in 1..Len(s) : s[i] \in SpaceChars
      [] pattern = "^[a-zA-Z_]\\\\w*$" ->
            \* a letter or "_", a backslash, any number of letters w
            /\ Len(s) >= 2
            /\ s[1] \in Letters \cup {"_"}
            /\ s[2] = Backslash
            /\ \A i \in 3..Len(s) : s[i] = "w"
      [] pattern = "^\\\\d+(\\\\.\\\\d+)?$" ->
            \* backslash d+, then optionally: a backslash, any character,
            \* backslash d+
            \/ BackslashDs(s)
            \/ \E k \in 2..Len(s) :
                  /\ BackslashDs(SubSeq(s, 1, k))
                  /\ Len(s) >= k + 2
                  /\ s[k + 1] = Backslash
                  /\ BackslashDs(SubSeq(s, k + 3, Len(s)))
      [] pattern = "^\\\\s+$" ->
            \* a backslash and then one or more letters s
            /\ Len(s) >= 2
            /\ s[1] = Backslash
            /\ \A i \in 2..Len(s) : s[i] = "s"
      [] pattern = "^[0-9]+$" ->
            /\ Len(s) >= 1
            /\ \A i \in 1..Len(s) : s[i] \in Digits
      [] pattern = "^[a-z0-9]+$" ->
            /\ Len(s) >= 1
            /\ \A i \in 1..Len(s) : s[i] \in Letters \cup Digits
      [] pattern = "[0-9]+" ->
            /\ Len(s) >= 1
            /\ \A i \in 1..Len(s) : s[i] \in Digits
      [] OTHER -> FALSE

regexec(pattern, text) ==
    \E i \in 1..(Len(text) + 1) : \E j \in (i - 1)..Len(text) :
        /\ RegexAnchoredStart(pattern) => i = 1
        /\ RegexAnchoredEnd(pattern) => j = Len(text)
        /\ RegexCore(pattern, SubSeq(text, i, j))

matches_pattern(pattern, text) ==
    IF ~RegexCompiles(pattern) THEN FALSE ELSE regexec(pattern, text)

(***************************************************************************)
(* Governance (part_000).                                                  *)
(***************************************************************************)
\* what a lookup returns when it returns NULL instead of a string
NullString == "(null)"

\* the entries rift_load_governance fills in
rift_load_governance ==
    << [pattern |-> "^[a-zA-Z_]\\w*$", intention |-> "IDENTIFIER_RECOGNITION",
        sp_alignment |-> "STAGE_0_TOKENIZER"],
       [pattern |-> "^\\d+$", intention |-> "NUMBER_RECOGNITION",
        sp_alignment |-> "STAGE_0_TOKENIZER"],
       [pattern |-> "^[+\\-*/]$", intention |-> "OPERATOR_RECOGNITION",
        sp_alignment |-> "STAGE_0_TOKENIZER"] >>

\* the pattern of the first entry whose intention is key
rift_get_config_value(gov, key) ==
    LET hits == {i \in 1..Len(gov) : gov[i].intention = key}
    IN  IF hits = {} THEN NullString
        ELSE gov[CHOOSE i \in hits : \A j \in hits : i <= j].pattern

(***************************************************************************)
(* RIFT-0: the tokenizer (part_000).                                       *)
(***************************************************************************)
\* the four states rift_tokenizer_create configures, in order
rift_tokenizer_create(gov) ==
    << [pattern |-> rift_get_config_value(gov, "IDENTIFIER_RECOGNITION"),
        type |-> TOKEN_IDENTIFIER, is_final |-> TRUE, id |-> 0],
       [pattern |-> rift_get_config_value(gov, "NUMBER_RECOGNITION"),
        type |-> TOKEN_NUMBER, is_final |-> TRUE, id |-> 1],
       [pattern |-> rift_get_config_value(gov, "OPERATOR_RECOGNITION"),
        type |-> TOKEN_OPERATOR, is_final |-> TRUE, id |-> 2],
       [pattern |-> "^\\s+$",
        type |-> TOKEN_WHITESPACE, is_final |-> TRUE, id |-> 3] >>

\* strtok's scan: the text after the leading delimiters
RECURSIVE SkipDelimiters(_)
SkipDelimiters(s) ==
    IF s # <<>> /\ Head(s) = " " THEN SkipDelimiters(Tail(s)) ELSE s

\* strtok's scan: the characters up to the next delimiter
RECURSIVE UpToDelimiter(_)
UpToDelimiter(s) ==
    IF s = <<>> \/ Head(s) = " " THEN <<>>
    ELSE <<Head(s)>> \o UpToDelimiter(Tail(s))

\* strtok(text, " "): the next token (<<>> for NULL) and the saved position,
\* which is past the delimiter that ended the token
strtok(text) ==
    LET t == SkipDelimiters(text)
        tok == UpToDelimiter(t)
        after == SubSeq(t, Len(tok) + 1, Len(t))
    IN  [token |-> tok,
         save |-> IF after = <<>> THEN <<>> ELSE Tail(after)]

\* the classification loop of rift_tokenize: the first state whose pattern
\* matches gives the type
ClassifyFirstMatch(states, text) ==
    LET hits == {i \in 1..Len(states) : matches_pattern(states[i].pattern, text)}
    IN  IF hits = {} THEN TOKEN_UNKNOWN
        ELSE states[CHOOSE i \in hits : \A j \in hits : i <= j].type

\* the "Resize if needed" step: the capacity after it
GrownCapacity(s) ==
    IF Len(s.tokens) >= s.capacity THEN s.capacity * 2 ELSE s.capacity

\* an AppendToken that takes the column from the count before the increment
AppendTokenColumnFromZero(s, states, text) ==
    [tokens |-> Append(s.tokens,
                       [type |-> ClassifyFirstMatch(states, text),
                        value |-> text,
                        line |-> 1,
                        column |-> Len(s.tokens)]),
     capacity |-> GrownCapacity(s)]

\* one pass of rift_tokenize's loop body for token_str
AppendToken(s, states, text) ==
    [tokens |-> Append(s.tokens,
                       [type |-> ClassifyFirstMatch(states, text),
                        value |-> text,
                        line |-> 1,
                        column |-> Len(s.tokens) + 1]),
     capacity |-> GrownCapacity(s)]

\* one pass of the loop body of rift_tokenize in rift_sim.c, which has no
\* "Resize if needed": the token is written at tokens[count] whatever the
\* capacity is
AppendTokenNoResize(s, states, text) ==
    [tokens |-> Append(s.tokens,
                       [type |-> ClassifyFirstMatch(states, text),
                        value |-> text,
                        line |-> 1,
                        column |-> Len(s.tokens) + 1]),
     capacity |-> s.capacity]

(***************************************************************************)
(* RIFT-1: the parser (part_000).                                          *)
(***************************************************************************)
rift_parser_create ==
    [input_tokens |-> <<>>, current_position |-> 0]

\* a fresh node is appended to the heap; its address is its index
create_ast_node(h, type, value) ==
    Append(h, [type |-> type, value |-> value, left |-> NULL, right |-> NULL])

\* the index (from 1) of the token at the cursor, NULL when exhausted
current_token(p) ==
    IF p.current_position >= Len(p.input_tokens) THEN NULL
    ELSE p.current_position + 1

\* an advance_token without the test against the token count
AdvanceTokenUnbounded(p) ==
    [p EXCEPT !.current_position = p.current_position + 1]

advance_token(p) ==
    IF p.current_position < Len(p.input_tokens)
    THEN [p EXCEPT !.current_position = p.current_position + 1]
    ELSE p

\* a parse_factor that steps over a token it does not accept
ParseFactorSkipping(p, h) ==
    LET token == current_token(p) IN
    IF token = NULL THEN [node |-> NULL, parser |-> p, heap |-> h]
    ELSE IF p.input_tokens[token].type = TOKEN_IDENTIFIER
    THEN [node |-> Len(h) + 1,
          parser |-> advance_token(p),
          heap |-> create_ast_node(h, AST_IDENTIFIER, p.input_tokens[token].value)]
    ELSE IF p.input_tokens[token].type = TOKEN_NUMBER
    THEN [node |-> Len(h) + 1,
          parser |-> advance_token(p),
          heap |-> create_ast_node(h, AST_NUMBER, p.input_tokens[token].value)]
    ELSE [node |-> NULL, parser |-> advance_token(p), heap |-> h]

\* parse_factor: the node returned, and the parser and heap it leaves
parse_factor(p, h) ==
    LET token == current_token(p) IN
    IF token = NULL THEN [node |-> NULL, parser |-> p, heap |-> h]
    ELSE IF p.input_tokens[token].type = TOKEN_IDENTIFIER
    THEN [node |-> Len(h) + 1,
          parser |-> advance_token(p),
          heap |-> create_ast_node(h, AST_IDENTIFIER, p.input_tokens[token].value)]
    ELSE IF p.input_tokens[token].type = TOKEN_NUMBER
    THEN [node |-> Len(h) + 1,
          parser |-> advance_token(p),
          heap |-> create_ast_node(h, AST_NUMBER, p.input_tokens[token].value)]
    ELSE [node |-> NULL, parser |-> p, heap |-> h]

\* the loop condition of parse_term
TermLoopCondition(p) ==
    /\ current_token(p) # NULL
    /\ p.input_tokens[current_token(p)].type = TOKEN_OPERATOR
    /\ \/ p.input_tokens[current_token(p)].value = <<"*">>
       \/ p.input_tokens[current_token(p)].value = <<"/">>

\* the loop condition of parse_expression
ExpressionLoopCondition(p) ==
    /\ current_token(p) # NULL
    /\ p.input_tokens[current_token(p)].type = TOKEN_OPERATOR
    /\ \/ p.input_tokens[current_token(p)].value = <<"+">>
       \/ p.input_tokens[current_token(p)].value = <<"-">>

\* a BinaryOpNode that links its operands the wrong way round
BinaryOpNodeSwapped(h, op, left, right) ==
    Append(h, [type |-> AST_BINARY_OP, value |-> op, left |-> right, right |-> left])

\* a BinaryOpNode that links its left operand on both sides
BinaryOpNodeSharing(h, op, left, right) ==
    Append(h, [type |-> AST_BINARY_OP, value |-> op, left |-> left,
               right |-> IF right = NULL THEN NULL ELSE left])

\* binary_op = create_ast_node(AST_BINARY_OP, op); ->left = left; ->right = right
BinaryOpNode(h, op, left, right) ==
    Append(h, [type |-> AST_BINARY_OP, value |-> op, left |-> left, right |-> right])

\* the locals before parse_expression is entered
NoFrame ==
    [at |-> "idle", site |-> "none",
     e_left |-> NULL, e_op |-> <<>>, e_right |-> NULL,
     t_left |-> NULL, t_op |-> <<>>]

(***************************************************************************)
(* RIFT-2: the AST coordinator (part_000).                                 *)
(***************************************************************************)
rift_ast_coordinator_create ==
    [root |-> NULL, node_count |-> 0, optimization_passes |-> 1]

\* a count that follows the left children only
RECURSIVE CountLeftSpine(_, _)
CountLeftSpine(h, node) ==
    IF node = NULL THEN 0 ELSE 1 + CountLeftSpine(h, h[node].left)

RECURSIVE count_ast_nodes(_, _)
count_ast_nodes(h, node) ==
    IF node = NULL THEN 0
    ELSE 1 + count_ast_nodes(h, h[node].left) + count_ast_nodes(h, h[node].right)

(***************************************************************************)
(* RIFT-3: the output stage (part_000).  A rendering is the list of the    *)
(* lines printed from "(AST" on; the narration printed before it is left   *)
(* out.                                                                    *)
(***************************************************************************)
rift_output_stage_create ==
    [ast |-> NULL, output_format |-> "LISP_STYLE_AST"]

\* for (i = 0; i < indent; i++) printf("  ");
\* an indentation of four spaces per level
RECURSIVE IndentationWide(_)
IndentationWide(indent) ==
    IF indent <= 0 THEN "" ELSE "    " \o IndentationWide(indent - 1)

RECURSIVE Indentation(_)
Indentation(indent) ==
    IF indent <= 0 THEN "" ELSE "  " \o Indentation(indent - 1)

RECURSIVE print_ast_recursive(_, _, _)
print_ast_recursive(h, node, indent) ==
    IF node = NULL THEN <<>>
    ELSE CASE h[node].type = AST_IDENTIFIER ->
                << Indentation(indent) \o "(Identifier " \o Str(h[node].value) \o ")" >>
           [] h[node].type = AST_NUMBER ->
                << Indentation(indent) \o "(Number " \o Str(h[node].value) \o ")" >>
           [] h[node].type = AST_BINARY_OP ->
                << Indentation(indent) \o "(BinOp " \o Str(h[node].value) >>
                \o print_ast_recursive(h, h[node].left, indent + 1)
                \o print_ast_recursive(h, h[node].right, indent + 1)
                \o << Indentation(indent) \o ")" >>
           [] OTHER ->
                << Indentation(indent) \o "(Unknown)" >>

(***************************************************************************)
(* Inputs.                                                                 *)
(***************************************************************************)
SeqsUpTo(S, n) == UNION {[1..k -> S] : k \in 0..n}

\* the characters source texts are drawn from: a space (strtok's delimiter),
\* a letter, a digit, an operator and a tab
SrcChars == {" ", "x", "2", "+", "\t"}

SrcXPlus2TimesY == <<"x", " ", "+", " ", "2", " ", "*", " ", "y">>
SrcAMinusBMinusC == <<"a", " ", "-", " ", "b", " ", "-", " ", "c">>

\* a text of eleven lexemes, one more than the initial capacity of a stream
SrcElevenLexemes == [i \in 1..21 |-> IF i % 2 = 1 THEN "x" ELSE " "]

Sources ==
    SeqsUpTo(SrcChars, MaxSrcLen)
       \cup {SrcXPlus2TimesY, SrcAMinusBMinusC, SrcElevenLexemes}

\* the texts a caller of rift_sim.c's rift_tokenize passes
PocSources ==
    {SrcXPlus2TimesY, SrcElevenLexemes, SubSeq(SrcElevenLexemes, 1, 19), <<>>}

\* the tokens caller-supplied streams are drawn from
TokenAlphabet ==
    { [type |-> TOKEN_IDENTIFIER, value |-> <<"x">>],
      [type |-> TOKEN_NUMBER, value |-> <<"2">>],
      [type |-> TOKEN_OPERATOR, value |-> <<"+">>],
      [type |-> TOKEN_OPERATOR, value |-> <<"-">>],
      [type |-> TOKEN_OPERATOR, value |-> <<"*">>],
      [type |-> TOKEN_OPERATOR, value |-> <<"/">>],
      [type |-> TOKEN_UNKNOWN, value |-> <<"?">>] }

Tok(type, ch) == [type |-> type, value |-> <<ch>>]

TokXPlus2TimesY ==
    << Tok(TOKEN_IDENTIFIER, "x"), Tok(TOKEN_OPERATOR, "+"),
       Tok(TOKEN_NUMBER, "2"), Tok(TOKEN_OPERATOR, "*"),
       Tok(TOKEN_IDENTIFIER, "y") >>

TokAMinusBMinusC ==
    << Tok(TOKEN_IDENTIFIER, "a"), Tok(TOKEN_OPERATOR, "-"),
       Tok(TOKEN_IDENTIFIER, "b"), Tok(TOKEN_OPERATOR, "-"),
       Tok(TOKEN_IDENTIFIER, "c") >>

TokenInputs ==
    SeqsUpTo(TokenAlphabet, MaxTokens) \cup {TokXPlus2TimesY, TokAMinusBMinusC}

\* a token stream as a tokenizer lays it out: line 1, column = position
TokenStreamOf(ts) ==
    [tokens |-> [k \in 1..Len(ts) |->
                    [type |-> ts[k].type, value |-> ts[k].value,
                     line |-> 1, column |-> k]],
     capacity |-> 10]

(***************************************************************************)
(* The standalone pipeline: initial states.                                *)
(***************************************************************************)
\* main() before its first statement, for any source text and either regcomp
InitMain ==
    /\ entry = "main"
    /\ pc = "load_governance"
    /\ digit_escape \in BOOLEAN
    /\ source_input \in Sources
    /\ governance = <<>>
    /\ tokenizer = <<>>
    /\ stream = [tokens |-> <<>>, capacity |-> 0]
    /\ parser = rift_parser_create
    /\ coordinator = rift_ast_coordinator_create
    /\ output_stage = rift_output_stage_create

\* a caller of the library that holds a token stream and the stage objects
\* and is about to call rift_parse
InitApi ==
    /\ entry = "api"
    /\ pc = "parse"
    /\ digit_escape = FALSE
    /\ source_input = <<>>
    /\ governance = rift_load_governance
    /\ tokenizer = rift_tokenizer_create(rift_load_governance)
    /\ \E ts \in TokenInputs : stream = TokenStreamOf(ts)
    /\ parser = rift_parser_create
    /\ coordinator = rift_ast_coordinator_create
    /\ output_stage = rift_output_stage_create

\* a caller of the library of rift_sim.c that holds a tokenizer and is about
\* to call rift_tokenize
InitPoc ==
    /\ entry = "poc"
    /\ pc = "tokenize"
    /\ digit_escape \in BOOLEAN
    /\ source_input \in PocSources
    /\ governance = rift_load_governance
    /\ tokenizer = rift_tokenizer_create(rift_load_governance)
    /\ stream = [tokens |-> <<>>, capacity |-> 0]
    /\ parser = rift_parser_create
    /\ coordinator = rift_ast_coordinator_create
    /\ output_stage = rift_output_stage_create

InitSim ==
    /\ InitMain \/ InitApi \/ InitPoc
    /\ token_str = <<>>
    /\ strtok_save = <<>>
    /\ frame = NoFrame
    /\ heap = <<>>
    /\ ast = NULL
    /\ coordinated_ast = NULL
    /\ stdout = <<>>

(***************************************************************************)
(* The standalone pipeline: main's steps up to the parser.                 *)
(***************************************************************************)
RiftLoadGovernance ==
    /\ pc = "load_governance"
    /\ governance' = rift_load_governance
    /\ pc' = "tokenizer_create"
    /\ UNCHANGED <<entry, digit_escape, source_input, tokenizer, token_str,
                   strtok_save, stream, parser, frame, heap, ast, coordinator,
                   coordinated_ast, output_stage, stdout>>
    /\ UNCHANGED <<stageVars, escapeVars>>

RiftTokenizerCreate ==
    /\ pc = "tokenizer_create"
    /\ tokenizer' = rift_tokenizer_create(governance)
    /\ pc' = "tokenize"
    /\ UNCHANGED <<entry, digit_escape, source_input, governance, token_str,
                   strtok_save, stream, parser, frame, heap, ast, coordinator,
                   coordinated_ast, output_stage, stdout>>
    /\ UNCHANGED <<stageVars, escapeVars>>

\* rift_tokenize up to its loop: the stream is allocated, strtok is primed
RiftTokenizeBegin ==
    /\ pc = "tokenize"
    /\ stream' = [tokens |-> <<>>, capacity |-> 10]
    /\ token_str' = strtok(source_input).token
    /\ strtok_save' = strtok(source_input).save
    /\ pc' = "tokenize_loop"
    /\ UNCHANGED <<entry, digit_escape, source_input, governance, tokenizer,
                   parser, frame, heap, ast, coordinator, coordinated_ast,
                   output_stage, stdout>>
    /\ UNCHANGED <<stageVars, escapeVars>>

\* one pass of the loop: token_str is appended, classified, and strtok moves on
\* (in rift_sim.c a write at tokens[count] with count >= capacity is past
\* the end of the allocation: it lands in the memory behind it, or the
\* program is stopped)
RiftTokenizeToken ==
    /\ pc = "tokenize_loop"
    /\ token_str # <<>>
    /\ \/ /\ entry # "poc"
          /\ stream' = IF Len(token_str) > 0 /\ token_str[1] # " "
                       THEN AppendToken(stream, tokenizer, token_str)
                       ELSE stream
          /\ pc' = pc
       \/ /\ entry = "poc"
          /\ stream' = IF Len(token_str) > 0 /\ token_str[1] # " "
                       THEN AppendTokenNoResize(stream, tokenizer, token_str)
                       ELSE stream
          /\ pc' = pc
       \/ /\ entry = "poc"
          /\ Len(token_str) > 0 /\ token_str[1] # " "
          /\ Len(stream.tokens) >= stream.capacity
          /\ stream' = stream
          /\ pc' = "crashed"
    /\ token_str' = strtok(strtok_save).token
    /\ strtok_save' = strtok(strtok_save).save
    /\ UNCHANGED <<entry, digit_escape, source_input, governance, tokenizer,
                   parser, frame, heap, ast, coordinator, coordinated_ast,
                   output_stage, stdout>>
    /\ UNCHANGED <<stageVars, escapeVars>>

\* strtok returned NULL: rift_tokenize returns the stream; main creates the parser
RiftTokenizeReturn ==
    /\ pc = "tokenize_loop"
    /\ token_str = <<>>
    /\ parser' = rift_parser_create
    /\ pc' = IF entry = "poc" THEN "returned" ELSE "parse"
    /\ UNCHANGED <<entry, digit_escape, source_input, governance, tokenizer,
                   token_str, strtok_save, stream, frame, heap, ast, coordinator,
                   coordinated_ast, output_stage, stdout>>
    /\ UNCHANGED <<stageVars, escapeVars>>

(***************************************************************************)
(* The standalone pipeline: rift_parse, step by step.  frame.at is the     *)
(* place in parse_expression / parse_term the parser stands at; frame.site *)
(* tells which call of parse_term (for the left or a right operand) runs.  *)
(***************************************************************************)
\* rift_parse binds the stream, resets the cursor and enters parse_expression,
\* which enters parse_term for its left operand
RiftParse ==
    /\ pc = "parse"
    /\ parser' = [input_tokens |-> stream.tokens, current_position |-> 0]
    /\ frame' = [NoFrame EXCEPT !.at = "term_enter", !.site = "left"]
    /\ pc' = "parsing"
    /\ UNCHANGED <<entry, digit_escape, source_input, governance, tokenizer,
                   token_str, strtok_save, stream, heap, ast, coordinator,
                   coordinated_ast, output_stage, stdout>>
    /\ UNCHANGED <<stageVars, escapeVars>>

\* parse_term: left = parse_factor(parser)
ParseTermEnter ==
    /\ pc = "parsing"
    /\ frame.at = "term_enter"
    /\ LET r == parse_factor(parser, heap) IN
        /\ parser' = r.parser
        /\ heap' = r.heap
        /\ frame' = [frame EXCEPT !.t_left = r.node, !.at = "term_loop"]
    /\ UNCHANGED <<pc, entry, digit_escape, source_input, governance, tokenizer,
                   token_str, strtok_save, stream, ast, coordinator,
                   coordinated_ast, output_stage, stdout>>
    /\ UNCHANGED <<stageVars, escapeVars>>

\* a parse_term whose loop takes the operator without advancing the cursor
ParseTermOperatorNotAdvancing ==
    /\ pc = "parsing"
    /\ frame.at = "term_loop"
    /\ TermLoopCondition(parser)
    /\ frame' = [frame EXCEPT !.t_op = parser.input_tokens[current_token(parser)].value,
                              !.at = "term_right"]
    /\ UNCHANGED <<pc, entry, digit_escape, source_input, governance, tokenizer,
                   token_str, strtok_save, stream, parser, heap, ast, coordinator,
                   coordinated_ast, output_stage, stdout>>
    /\ UNCHANGED <<stageVars, escapeVars>>

\* parse_term's loop: the cursor is on "*" or "/"; op = its value; advance
ParseTermOperator ==
    /\ pc = "parsing"
    /\ frame.at = "term_loop"
    /\ TermLoopCondition(parser)
    /\ frame' = [frame EXCEPT !.t_op = parser.input_tokens[current_token(parser)].value,
                              !.at = "term_right"]
    /\ parser' = advance_token(parser)
    /\ UNCHANGED <<pc, entry, digit_escape, source_input, governance, tokenizer,
                   token_str, strtok_save, stream, heap, ast, coordinator,
                   coordinated_ast, output_stage, stdout>>
    /\ UNCHANGED <<stageVars, escapeVars>>

\* a parse_term that builds no BinaryOp when the right operand is missing
ParseTermBinaryDroppingIncomplete ==
    /\ pc = "parsing"
    /\ frame.at = "term_right"
    /\ LET r == parse_factor(parser, heap) IN
        /\ parser' = r.parser
        /\ heap' = IF r.node = NULL THEN r.heap
                   ELSE BinaryOpNode(r.heap, frame.t_op, frame.t_left, r.node)
        /\ frame' = [frame EXCEPT !.t_left = IF r.node = NULL THEN frame.t_left
                                             ELSE Len(r.heap) + 1,
                                  !.t_op = <<>>, !.at = "term_loop"]
    /\ UNCHANGED <<pc, entry, digit_escape, source_input, governance, tokenizer,
                   token_str, strtok_save, stream, ast, coordinator,
                   coordinated_ast, output_stage, stdout>>
    /\ UNCHANGED <<stageVars, escapeVars>>

\* parse_term's loop: right = parse_factor(parser); left = the new BinaryOp
ParseTermBinary ==
    /\ pc = "parsing"
    /\ frame.at = "term_right"
    /\ LET r == parse_factor(parser, heap) IN
        /\ parser' = r.parser
        /\ heap' = BinaryOpNode(r.heap, frame.t_op, frame.t_left, r.node)
        /\ frame' = [frame EXCEPT !.t_left = Len(r.heap) + 1, !.t_op = <<>>,
                                  !.at = "term_loop"]
    /\ UNCHANGED <<pc, entry, digit_escape, source_input, governance, tokenizer,
                   token_str, strtok_save, stream, ast, coordinator,
                   coordinated_ast, output_stage, stdout>>
    /\ UNCHANGED <<stageVars, escapeVars>>

\* parse_term returns left to parse_expression, as its left or right operand
ParseTermReturn ==
    /\ pc = "parsing"
    /\ frame.at = "term_loop"
    /\ ~TermLoopCondition(parser)
    /\ frame' = IF frame.site = "left"
                THEN [frame EXCEPT !.e_left = frame.t_left, !.t_left = NULL,
                                   !.at = "expr_loop"]
                ELSE [frame EXCEPT !.e_right = frame.t_left, !.t_left = NULL,
                                   !.at = "expr_build"]
    /\ UNCHANGED <<pc, entry, digit_escape, source_input, governance, tokenizer,
                   token_str, strtok_save, stream, parser, heap, ast, coordinator,
                   coordinated_ast, output_stage, stdout>>
    /\ UNCHANGED <<stageVars, escapeVars>>

\* parse_expression's loop: the cursor is on "+" or "-"; op = its value;
\* advance; parse_term is entered for the right operand
ParseExpressionOperator ==
    /\ pc = "parsing"
    /\ frame.at = "expr_loop"
    /\ ExpressionLoopCondition(parser)
    /\ frame' = [frame EXCEPT !.e_op = parser.input_tokens[current_token(parser)].value,
                              !.site = "right", !.at = "term_enter"]
    /\ parser' = advance_token(parser)
    /\ UNCHANGED <<pc, entry, digit_escape, source_input, governance, tokenizer,
                   token_str, strtok_save, stream, heap, ast, coordinator,
                   coordinated_ast, output_stage, stdout>>
    /\ UNCHANGED <<stageVars, escapeVars>>

\* a parse_expression that builds no BinaryOp when the right operand is missing
ParseExpressionBinaryDroppingIncomplete ==
    /\ pc = "parsing"
    /\ frame.at = "expr_build"
    /\ heap' = IF frame.e_right = NULL THEN heap
               ELSE BinaryOpNode(heap, frame.e_op, frame.e_left, frame.e_right)
    /\ frame' = [frame EXCEPT !.e_left = IF frame.e_right = NULL THEN frame.e_left
                                         ELSE Len(heap) + 1,
                              !.e_op = <<>>, !.e_right = NULL, !.at = "expr_loop"]
    /\ UNCHANGED <<pc, entry, digit_escape, source_input, governance, tokenizer,
                   token_str, strtok_save, stream, parser, ast, coordinator,
                   coordinated_ast, output_stage, stdout>>
    /\ UNCHANGED <<stageVars, escapeVars>>

\* parse_expression's loop: left = the new BinaryOp over left and right
ParseExpressionBinary ==
    /\ pc = "parsing"
    /\ frame.at = "expr_build"
    /\ heap' = BinaryOpNode(heap, frame.e_op, frame.e_left, frame.e_right)
    /\ frame' = [frame EXCEPT !.e_left = Len(heap) + 1, !.e_op = <<>>,
                              !.e_right = NULL, !.at = "expr_loop"]
    /\ UNCHANGED <<pc, entry, digit_escape, source_input, governance, tokenizer,
                   token_str, strtok_save, stream, parser, ast, coordinator,
                   coordinated_ast, output_stage, stdout>>
    /\ UNCHANGED <<stageVars, escapeVars>>

\* a parse_expression that returns no tree unless the cursor is at the end
ParseExpressionReturnAtEndOnly ==
    /\ pc = "parsing"
    /\ frame.at = "expr_loop"
    /\ ~ExpressionLoopCondition(parser)
    /\ ast' = IF parser.current_position = Len(parser.input_tokens)
              THEN frame.e_left ELSE NULL
    /\ frame' = NoFrame
    /\ pc' = IF entry = "main" THEN "check_ast" ELSE "coordinate"
    /\ UNCHANGED <<entry, digit_escape, source_input, governance, tokenizer,
                   token_str, strtok_save, stream, parser, heap, coordinator,
                   coordinated_ast, output_stage, stdout>>
    /\ UNCHANGED <<stageVars, escapeVars>>

\* parse_expression returns left; rift_parse returns it to its caller
ParseExpressionReturn ==
    /\ pc = "parsing"
    /\ frame.at = "expr_loop"
    /\ ~ExpressionLoopCondition(parser)
    /\ ast' = frame.e_left
    /\ frame' = NoFrame
    /\ pc' = IF entry = "main" THEN "check_ast" ELSE "coordinate"
    /\ UNCHANGED <<entry, digit_escape, source_input, governance, tokenizer,
                   token_str, strtok_save, stream, parser, heap, coordinator,
                   coordinated_ast, output_stage, stdout>>
    /\ UNCHANGED <<stageVars, escapeVars>>

(***************************************************************************)
(* The standalone pipeline: after the parser.                              *)
(***************************************************************************)
\* a main that goes from the parser straight to the output stage
MainCheckAstSkipping ==
    /\ pc = "check_ast"
    /\ IF ast = NULL
       THEN pc' = "exit_1" /\ coordinator' = coordinator
       ELSE pc' = "output_create" /\ coordinator' = rift_ast_coordinator_create
    /\ UNCHANGED <<entry, digit_escape, source_input, governance, tokenizer,
                   token_str, strtok_save, stream, parser, frame, heap, ast,
                   coordinated_ast, output_stage, stdout>>
    /\ UNCHANGED <<stageVars, escapeVars>>

\* main: if (!ast) return 1; else the coordinator is created
MainCheckAst ==
    /\ pc = "check_ast"
    /\ IF ast = NULL
       THEN pc' = "exit_1" /\ coordinator' = coordinator
       ELSE pc' = "coordinate" /\ coordinator' = rift_ast_coordinator_create
    /\ UNCHANGED <<entry, digit_escape, source_input, governance, tokenizer,
                   token_str, strtok_save, stream, parser, frame, heap, ast,
                   coordinated_ast, output_stage, stdout>>
    /\ UNCHANGED <<stageVars, escapeVars>>

\* a coordinator that folds the root's right operand away and returns the
\* root it held before the call
CoordinateRewriting(c, h, node) ==
    [coordinator |-> [c EXCEPT !.root = node,
                               !.node_count = count_ast_nodes(h, node)],
     heap |-> IF node = NULL THEN h ELSE [h EXCEPT ![node].right = NULL],
     ret |-> c.root]

\* rift_coordinate_ast(coordinator, node): the coordinator and the heap it
\* leaves, and the pointer it returns
rift_coordinate_ast(c, h, node) ==
    [coordinator |-> [c EXCEPT !.root = node,
                               !.node_count = count_ast_nodes(h, node)],
     heap |-> h,
     ret |-> node]

RiftCoordinateAst ==
    /\ pc = "coordinate"
    /\ LET r == rift_coordinate_ast(coordinator, heap, ast) IN
        /\ coordinator' = r.coordinator
        /\ heap' = r.heap
        /\ coordinated_ast' = r.ret
    /\ pc' = IF entry = "main" THEN "output_create" ELSE "generate_output"
    /\ UNCHANGED <<entry, digit_escape, source_input, governance, tokenizer,
                   token_str, strtok_save, stream, parser, frame, ast,
                   output_stage, stdout>>
    /\ UNCHANGED <<stageVars, escapeVars>>

\* main: output_stage = rift_output_stage_create(governance)
MainOutputStageCreate ==
    /\ pc = "output_create"
    /\ output_stage' = rift_output_stage_create
    /\ pc' = "generate_output"
    /\ UNCHANGED <<entry, digit_escape, source_input, governance, tokenizer,
                   token_str, strtok_save, stream, parser, frame, heap, ast,
                   coordinator, coordinated_ast, stdout>>
    /\ UNCHANGED <<stageVars, escapeVars>>

\* a renderer whose indentation starts from the tree it rendered last
GenerateOutputStateful(o, h, node) ==
    [output_stage |-> [o EXCEPT !.ast = node],
     heap |-> h,
     printed |-> <<"(AST">>
                 \o print_ast_recursive(h, node, IF o.ast = node THEN 2 ELSE 1)
                 \o <<")">>]

\* rift_generate_output(output, node): the output stage and the heap it
\* leaves, and the lines it prints
rift_generate_output(o, h, node) ==
    [output_stage |-> [o EXCEPT !.ast = node],
     heap |-> h,
     printed |-> <<"(AST">> \o print_ast_recursive(h, node, 1) \o <<")">>]

\* main calls rift_generate_output once; a caller of the library may call it
\* again on the same tree
RiftGenerateOutput ==
    /\ pc = "generate_output"
    /\ Len(stdout) < MaxRenders
    /\ LET r == rift_generate_output(output_stage, heap, coordinated_ast) IN
        /\ output_stage' = r.output_stage
        /\ heap' = r.heap
        /\ stdout' = Append(stdout, r.printed)
    /\ pc' = IF entry = "main" THEN "cleanup" ELSE "generate_output"
    /\ UNCHANGED <<entry, digit_escape, source_input, governance, tokenizer,
                   token_str, strtok_save, stream, parser, frame, ast,
                   coordinator, coordinated_ast>>
    /\ UNCHANGED <<stageVars, escapeVars>>

\* main's cleanup: every object is destroyed; main returns 0
MainCleanup ==
    /\ pc = "cleanup"
    /\ heap' = <<>>
    /\ stream' = [tokens |-> <<>>, capacity |-> 0]
    /\ tokenizer' = <<>>
    /\ governance' = <<>>
    /\ pc' = "exit_0"
    /\ UNCHANGED <<entry, digit_escape, source_input, token_str, strtok_save,
                   parser, frame, ast, coordinator, coordinated_ast,
                   output_stage, stdout>>
    /\ UNCHANGED <<stageVars, escapeVars>>

(***************************************************************************)
(* The stage-bound simulation: configuration sections.                     *)
(***************************************************************************)
\* config_section_create: no pairs, room for 10
config_section_create == [pairs |-> <<>>, capacity |-> 10]

\* config_section_add(section, key, value): the section after the call
config_section_add(section, key, value) ==
    [pairs |-> Append(section.pairs, [key |-> key, value |-> value]),
     capacity |-> IF Len(section.pairs) >= section.capacity
                  THEN section.capacity * 2 ELSE section.capacity]

\* a lookup that keeps scanning and returns the value of the last hit
ConfigSectionGetLast(section, key) ==
    LET hits == {i \in 1..Len(section.pairs) : section.pairs[i].key = key}
    IN  IF hits = {} THEN NullString
        ELSE section.pairs[CHOOSE i \in hits : \A j \in hits : i >= j].value

\* config_section_get(section, key): the value of the first pair whose key
\* compares equal, NULL when there is none
config_section_get(section, key) ==
    LET hits == {i \in 1..Len(section.pairs) : section.pairs[i].key = key}
    IN  IF hits = {} THEN NullString
        ELSE section.pairs[CHOOSE i \in hits : \A j \in hits : i <= j].value

\* config_section_add for each line, in order
RECURSIVE AddLines(_, _)
AddLines(section, lines) ==
    IF lines = <<>> THEN section
    ELSE AddLines(config_section_add(section, Head(lines).key, Head(lines).value),
                  Tail(lines))

Line(key, value) == [key |-> key, value |-> value]

\* the [TOKEN_PATTERNS] lines load_stage_config(0) adds
ShippedTokenPatterns ==
    << Line("IDENTIFIER_PATTERN", "^[a-zA-Z_]\\\\w*$"),
       Line("IDENTIFIER_PRIORITY", "100"),
       Line("NUMBER_PATTERN", "^\\\\d+(\\\\.\\\\d+)?$"),
       Line("NUMBER_PRIORITY", "90"),
       Line("OPERATOR_PATTERN", "^[+\\\\-*/=<>!&|]$"),
       Line("OPERATOR_PRIORITY", "80"),
       Line("WHITESPACE_PATTERN", "^\\\\s+$"),
       Line("WHITESPACE_PRIORITY", "10") >>

\* stage_configs[i] == NULL
NullConfig ==
    [stage_id |-> -1, stage_name |-> NullString, sp_alignment |-> NullString,
     governance_version |-> NullString, sections |-> <<>>, section_names |-> <<>>]

\* load_stage_config(stage_id); the [TOKEN_PATTERNS] lines of stage 0 are
\* those of the simulated file
load_stage_config(stage_id, file) ==
    CASE stage_id = 0 ->
            [stage_id |-> 0, stage_name |-> "TOKENIZER",
             sp_alignment |-> "LEXICAL_ANALYSIS", governance_version |-> "1.0.0",
             sections |->
                << AddLines(config_section_create, file),
                   AddLines(config_section_create,
                      << Line("initial_state", "START"),
                         Line("final_states", "IDENTIFIER,NUMBER,OPERATOR"),
                         Line("error_recovery", "true") >>) >>,
             section_names |-> <<"TOKEN_PATTERNS", "DFA_CONFIGURATION">>]
      [] stage_id = 1 ->
            [stage_id |-> 1, stage_name |-> "PARSER_BRIDGE",
             sp_alignment |-> "SYNTACTIC_ANALYSIS", governance_version |-> "1.0.0",
             sections |->
                << AddLines(config_section_create,
                      << Line("EXPRESSION_RULE", "expression -> term ((PLUS | MINUS) term)*"),
                         Line("TERM_RULE", "term -> factor ((MULTIPLY | DIVIDE) factor)*"),
                         Line("FACTOR_RULE", "factor -> IDENTIFIER | NUMBER | LPAREN expression RPAREN") >>),
                   AddLines(config_section_create,
                      << Line("MULTIPLY_PRECEDENCE", "20"),
                         Line("DIVIDE_PRECEDENCE", "20"),
                         Line("PLUS_PRECEDENCE", "10"),
                         Line("MINUS_PRECEDENCE", "10") >>) >>,
             section_names |-> <<"GRAMMAR_RULES", "PRECEDENCE_TABLE">>]
      [] stage_id = 2 ->
            [stage_id |-> 2, stage_name |-> "AST_COORDINATOR",
             sp_alignment |-> "SEMANTIC_ANALYSIS", governance_version |-> "1.0.0",
             sections |->
                << AddLines(config_section_create,
                      << Line("constant_folding", "enabled"),
                         Line("dead_code_elimination", "enabled"),
                         Line("common_subexpression_elimination", "disabled") >>) >>,
             section_names |-> <<"OPTIMIZATION_PASSES">>]
      [] stage_id = 3 ->
            [stage_id |-> 3, stage_name |-> "OUTPUT_GENERATOR",
             sp_alignment |-> "CODE_GENERATION", governance_version |-> "1.0.0",
             sections |->
                << AddLines(config_section_create,
                      << Line("primary_format", "LISP_STYLE_AST"),
                         Line("secondary_format", "C_CODE"),
                         Line("debug_format", "DOT_GRAPH"),
                         Line("json_export", "enabled") >>) >>,
             section_names |-> <<"OUTPUT_FORMATS">>]

\* the section of a stage configuration with the given name: the first one
\* whose name compares equal, an empty section standing for "none"
SectionNamed(config, name) ==
    LET hits == {i \in 1..Len(config.section_names) : config.section_names[i] = name}
    IN  IF hits = {} THEN [pairs |-> <<>>, capacity |-> 0]
        ELSE config.sections[CHOOSE i \in hits : \A j \in hits : i <= j]

HasSectionNamed(config, name) ==
    \E i \in 1..Len(config.section_names) : config.section_names[i] = name

(***************************************************************************)
(* The stage-bound simulation: the governance system.                      *)
(***************************************************************************)
\* the system before governance_system_create has run
NullSystem ==
    [stage_configs |-> [i \in 0..3 |-> NullConfig],
     stage_loaded |-> [i \in 0..3 |-> FALSE],
     global_config |-> [pairs |-> <<>>, capacity |-> 0]]

governance_system_create ==
    [stage_configs |-> [i \in 0..3 |-> NullConfig],
     stage_loaded |-> [i \in 0..3 |-> FALSE],
     global_config |-> config_section_create]

\* a governance_load_stage that takes an id above 3 for the last stage
GovernanceLoadStageClamping(sys, stage_id, file) ==
    IF stage_id < 0
    THEN [system |-> sys, ret |-> FALSE, constructed |-> FALSE]
    ELSE LET id == IF stage_id > 3 THEN 3 ELSE stage_id IN
         IF sys.stage_loaded[id]
         THEN [system |-> sys, ret |-> TRUE, constructed |-> FALSE]
         ELSE [system |->
                  [sys EXCEPT !.stage_configs[id] = load_stage_config(id, file),
                              !.stage_loaded[id] = TRUE],
               ret |-> TRUE, constructed |-> TRUE]

\* a governance_load_stage without the test for a stage already loaded
GovernanceLoadStageReloading(sys, stage_id, file) ==
    IF stage_id < 0 \/ stage_id > 3
    THEN [system |-> sys, ret |-> FALSE, constructed |-> FALSE]
    ELSE [system |->
             [sys EXCEPT !.stage_configs[stage_id] = load_stage_config(stage_id, file),
                         !.stage_loaded[stage_id] = TRUE],
          ret |-> TRUE, constructed |-> TRUE]

\* governance_load_stage(system, stage_id): the system it leaves, the
\* boolean it returns, and whether it called load_stage_config
governance_load_stage(sys, stage_id, file) ==
    IF stage_id < 0 \/ stage_id > 3
    THEN [system |-> sys, ret |-> FALSE, constructed |-> FALSE]
    ELSE IF sys.stage_loaded[stage_id]
         THEN [system |-> sys, ret |-> TRUE, constructed |-> FALSE]
         ELSE [system |->
                  [sys EXCEPT !.stage_configs[stage_id] = load_stage_config(stage_id, file),
                              !.stage_loaded[stage_id] = TRUE],
               ret |-> TRUE, constructed |-> TRUE]

(***************************************************************************)
(* RIFT-0: the stage-bound tokenizer.                                      *)
(***************************************************************************)
\* atoi on the priority texts the configurations use; text that does not
\* start with a number converts to 0
atoi(text) ==
    CASE text = "100" -> 100
      [] text = "90" -> 90
      [] text = "80" -> 80
      [] text = "10" -> 10
      [] text = "7" -> 7
      [] text = "0" -> 0
      [] text = "-1" -> -1
      [] text = "-5" -> -5
      [] OTHER -> 0

\* the processor before rift_stage0_create has run
NullProcessor ==
    [stage_config |-> NullConfig, token_patterns |-> <<>>,
     token_priorities |-> <<>>, pattern_count |-> 0]

\* rift_stage0_create(governance): the system it leaves and the processor it
\* returns (NullProcessor for NULL).  load_stage_config(0) always names a
\* TOKEN_PATTERNS section, so the patterns are always extracted.
rift_stage0_create(sys, file) ==
    LET r == governance_load_stage(sys, 0, file)
        patterns == SectionNamed(r.system.stage_configs[0], "TOKEN_PATTERNS")
    IN  IF ~r.ret
        THEN [system |-> r.system, processor |-> NullProcessor]
        ELSE [system |-> r.system,
              processor |->
                 [stage_config |-> r.system.stage_configs[0],
                  token_patterns |->
                     << config_section_get(patterns, "IDENTIFIER_PATTERN"),
                        config_section_get(patterns, "NUMBER_PATTERN"),
                        config_section_get(patterns, "OPERATOR_PATTERN"),
                        config_section_get(patterns, "WHITESPACE_PATTERN") >>,
                  token_priorities |->
                     << atoi(config_section_get(patterns, "IDENTIFIER_PRIORITY")),
                        atoi(config_section_get(patterns, "NUMBER_PRIORITY")),
                        atoi(config_section_get(patterns, "OPERATOR_PRIORITY")),
                        atoi(config_section_get(patterns, "WHITESPACE_PRIORITY")) >>,
                  pattern_count |-> 4]]

\* the keys rift_stage0_create looks up
RequiredKeys ==
    {"IDENTIFIER_PATTERN", "IDENTIFIER_PRIORITY", "NUMBER_PATTERN", "NUMBER_PRIORITY",
     "OPERATOR_PATTERN", "OPERATOR_PRIORITY", "WHITESPACE_PATTERN", "WHITESPACE_PRIORITY"}

\* rift_stage0_create hands strdup or atoi the NULL of a failed lookup
Stage0CreateDereferencesNull(sys, file) ==
    LET r == governance_load_stage(sys, 0, file)
        patterns == SectionNamed(r.system.stage_configs[0], "TOKEN_PATTERNS")
    IN  /\ r.ret
        /\ \E key \in RequiredKeys : config_section_get(patterns, key) = NullString

\* a pattern_matches that takes a failed regcomp for a match
PatternMatchesOnCompileFailure(pattern, text) ==
    IF pattern = NullString THEN FALSE
    ELSE IF ~RegexCompiles(pattern) THEN TRUE
    ELSE regexec(pattern, text)

pattern_matches(pattern, text) ==
    IF pattern = NullString THEN FALSE
    ELSE IF ~RegexCompiles(pattern) THEN FALSE
    ELSE regexec(pattern, text)

\* "Map pattern index to token type" (the index counts from 1 here)
TypeOfPatternIndex(i) ==
    CASE i = 1 -> TOKEN_IDENTIFIER
      [] i = 2 -> TOKEN_NUMBER
      [] i = 3 -> TOKEN_OPERATOR
      [] i = 4 -> TOKEN_WHITESPACE

\* the classification loop of rift_stage0_process from pattern i on; acc
\* holds highest_priority and the token's type and priority so far
RECURSIVE ClassifyLoop(_, _, _, _)
ClassifyLoop(processor, text, i, acc) ==
    IF i > processor.pattern_count THEN acc
    ELSE ClassifyLoop(processor, text, i + 1,
            IF /\ pattern_matches(processor.token_patterns[i], text)
               /\ processor.token_priorities[i] > acc.highest_priority
            THEN [highest_priority |-> processor.token_priorities[i],
                  priority |-> processor.token_priorities[i],
                  type |-> TypeOfPatternIndex(i)]
            ELSE acc)

\* a loop body that drops a lexeme no pattern matches
StageAppendTokenDroppingUnknown(s, processor, text) ==
    LET c == ClassifyLoop(processor, text, 1,
                [highest_priority |-> -1, priority |-> 0, type |-> TOKEN_UNKNOWN])
    IN  IF \A i \in 1..processor.pattern_count :
              ~pattern_matches(processor.token_patterns[i], text)
        THEN s
        ELSE [tokens |-> Append(s.tokens,
                           [type |-> c.type, value |-> text, line |-> 1,
                            column |-> Len(s.tokens) + 1, priority |-> c.priority]),
              capacity |-> GrownCapacity(s)]

\* one pass of rift_stage0_process's loop body for token_str
StageAppendToken(s, processor, text) ==
    LET c == ClassifyLoop(processor, text, 1,
                [highest_priority |-> -1, priority |-> 0, type |-> TOKEN_UNKNOWN])
    IN  [tokens |-> Append(s.tokens,
                       [type |-> c.type, value |-> text, line |-> 1,
                        column |-> Len(s.tokens) + 1, priority |-> c.priority]),
         capacity |-> GrownCapacity(s)]

\* create_simple_ast(tokens) and the lines main prints for it: the first
\* identifier token, if any, as the only node
SimpleAstLines(s) ==
    LET ids == {i \in 1..Len(s.tokens) : s.tokens[i].type = TOKEN_IDENTIFIER}
    IN  IF ids = {} THEN <<>>
        ELSE << "(AST",
                Indentation(1) \o "(Identifier "
                   \o Str(s.tokens[CHOOSE i \in ids : \A j \in ids : i <= j].value)
                   \o ")",
                ")" >>

(***************************************************************************)
(* The stage-bound simulation: inputs.                                     *)
(***************************************************************************)
\* the priority texts a .riftrc.0 may give instead of the shipped ones
OtherPriorities == {"-5", "-1", "0", "7"}

\* the files that keep the shipped keys, in the shipped order, and give each
\* a pattern or a priority of their own
VariedFiles ==
    { << Line("IDENTIFIER_PATTERN", p1), Line("IDENTIFIER_PRIORITY", q1),
         Line("NUMBER_PATTERN", p2), Line("NUMBER_PRIORITY", q2),
         Line("OPERATOR_PATTERN", p3), Line("OPERATOR_PRIORITY", q3),
         Line("WHITESPACE_PATTERN", p4), Line("WHITESPACE_PRIORITY", q4) >> :
        p1 \in {"^[a-zA-Z_]\\\\w*$", "^[a-z0-9]+$"},
        q1 \in {"100"} \cup OtherPriorities,
        p2 \in {"^\\\\d+(\\\\.\\\\d+)?$", "^[0-9]+$", "^[a-z0-9]+$"},
        q2 \in {"90"} \cup OtherPriorities,
        p3 \in {"^[+\\\\-*/=<>!&|]$", "^[a-z0-9]+$"},
        q3 \in {"80"} \cup OtherPriorities,
        p4 \in {"^\\\\s+$", "^[a-z0-9]+$"},
        q4 \in {"10"} \cup OtherPriorities }

\* most lines a file gives before, and after, the shipped ones
MaxExtraLines == 2

\* lines that give a key again, or a key of their own
ExtraLines ==
    { Line("IDENTIFIER_PRIORITY", "7"), Line("NUMBER_PATTERN", "^[0-9]+$"),
      Line("custom", "on"), Line("custom", "off") }

\* the shipped lines with extra lines before and after them
RepeatingFiles ==
    { pre \o ShippedTokenPatterns \o post :
        pre \in SeqsUpTo(ExtraLines, MaxExtraLines),
        post \in SeqsUpTo(ExtraLines, MaxExtraLines) }

\* the shipped lines without one of them
MissingKeyFiles ==
    { SubSeq(ShippedTokenPatterns, 1, k - 1)
        \o SubSeq(ShippedTokenPatterns, k + 1, Len(ShippedTokenPatterns)) :
        k \in 1..Len(ShippedTokenPatterns) }

\* the shipped lines with a NUMBER_PATTERN written without anchors
UnanchoredFiles ==
    { [ShippedTokenPatterns EXCEPT ![3] = Line("NUMBER_PATTERN", p)] :
        p \in UnanchoredPatterns }

\* texts with lexemes that hold digits and more
UnanchoredSources ==
    { <<"5">>, <<"x", "5">>, <<"5", "x", " ", "2", "5">>, <<"x">>, SrcElevenLexemes }

ShortStageSources == { <<"5">>, <<"x", " ", "5">>, <<"+">> }

StageSources ==
    ShortStageSources \cup
    { SrcXPlus2TimesY, <<>>, <<" ", "5", " ", " ", "x", " ">>,
      <<Backslash, "s">>, <<"x", Backslash, "w", " ", Backslash, "d">> }

(***************************************************************************)
(* The stage-bound simulation: main, step by step.                         *)
(***************************************************************************)
\* the stage-bound program is not running
StageIdle ==
    /\ stage_pc = "off"
    /\ riftrc = <<>>
    /\ input = <<>>
    /\ system = NullSystem
    /\ stage0 = NullProcessor
    /\ tokens = [tokens |-> <<>>, capacity |-> 0]
    /\ stage_token_str = <<>>
    /\ stage_save = <<>>
    /\ stage_stdout = <<>>
    /\ load_calls = <<>>

\* the standalone pipeline is not running
SimIdle ==
    /\ pc = "off"
    /\ entry = "none"
    /\ digit_escape = FALSE
    /\ source_input = <<>>
    /\ governance = <<>>
    /\ tokenizer = <<>>
    /\ token_str = <<>>
    /\ strtok_save = <<>>
    /\ stream = [tokens |-> <<>>, capacity |-> 0]
    /\ parser = rift_parser_create
    /\ frame = NoFrame
    /\ heap = <<>>
    /\ ast = NULL
    /\ coordinator = rift_ast_coordinator_create
    /\ coordinated_ast = NULL
    /\ output_stage = rift_output_stage_create
    /\ stdout = <<>>

\* most calls of governance_load_stage a caller of the function makes
MaxLoads == 3

\* the stage ids a caller passes: those of the stages, and one on either side
StageIds == -1..4

\* main is about to run; or a caller that holds a system just created is
\* about to call governance_load_stage
InitStage ==
    /\ \/ /\ stage_pc = "system_create"
          /\ \/ riftrc \in VariedFiles /\ input \in ShortStageSources
             \/ riftrc \in RepeatingFiles \cup MissingKeyFiles /\ input \in StageSources
             \/ riftrc \in UnanchoredFiles /\ input \in UnanchoredSources
          /\ system = NullSystem
       \/ /\ stage_pc = "caller"
          /\ riftrc = ShippedTokenPatterns
          /\ input = <<>>
          /\ system = governance_system_create
    /\ stage0 = NullProcessor
    /\ tokens = [tokens |-> <<>>, capacity |-> 0]
    /\ stage_token_str = <<>>
    /\ stage_save = <<>>
    /\ stage_stdout = <<>>
    /\ load_calls = <<>>

\* main: governance = governance_system_create()
GovernanceSystemCreate ==
    /\ stage_pc = "system_create"
    /\ system' = governance_system_create
    /\ stage_pc' = "stage0_create"
    /\ UNCHANGED <<riftrc, input, load_calls, stage0, tokens, stage_token_str,
                   stage_save, stage_stdout>>
    /\ UNCHANGED <<simVars, escapeVars>>

\* main: stage0 = rift_stage0_create(governance); NULL ends the run.
\* strdup(NULL) and atoi(NULL) are undefined: the process is killed by the
\* fault of reading address 0, or, with a library that returns NULL and 0
\* for them, the processor is built with those values
RiftStage0Create ==
    /\ stage_pc = "stage0_create"
    /\ LET r == rift_stage0_create(system, riftrc) IN
        /\ system' = r.system
        /\ \/ /\ ~Stage0CreateDereferencesNull(system, riftrc)
              /\ stage0' = r.processor
              /\ stage_pc' = IF r.processor = NullProcessor THEN "exit_1" ELSE "process"
           \/ /\ Stage0CreateDereferencesNull(system, riftrc)
              /\ stage0' = stage0
              /\ stage_pc' = "crashed"
           \/ /\ Stage0CreateDereferencesNull(system, riftrc)
              /\ stage0' = r.processor
              /\ stage_pc' = "process"
    /\ load_calls' = Append(load_calls,
          [stage_id |-> 0, ret |-> governance_load_stage(system, 0, riftrc).ret,
           constructed |-> governance_load_stage(system, 0, riftrc).constructed])
    /\ UNCHANGED <<riftrc, input, tokens, stage_token_str, stage_save,
                   stage_stdout>>
    /\ UNCHANGED <<simVars, escapeVars>>

\* rift_stage0_process up to its loop: the stream is allocated, strtok is primed
RiftStage0ProcessBegin ==
    /\ stage_pc = "process"
    /\ tokens' = [tokens |-> <<>>, capacity |-> 10]
    /\ stage_token_str' = strtok(input).token
    /\ stage_save' = strtok(input).save
    /\ stage_pc' = "process_loop"
    /\ UNCHANGED <<riftrc, input, load_calls, system, stage0, stage_stdout>>
    /\ UNCHANGED <<simVars, escapeVars>>

\* one pass of the loop: token_str is appended, classified, and strtok moves on
RiftStage0ProcessToken ==
    /\ stage_pc = "process_loop"
    /\ stage_token_str # <<>>
    /\ tokens' = IF Len(stage_token_str) > 0 /\ stage_token_str[1] # " "
                 THEN StageAppendToken(tokens, stage0, stage_token_str)
                 ELSE tokens
    /\ stage_token_str' = strtok(stage_save).token
    /\ stage_save' = strtok(stage_save).save
    /\ UNCHANGED <<stage_pc, riftrc, input, load_calls, system, stage0,
                   stage_stdout>>
    /\ UNCHANGED <<simVars, escapeVars>>

\* strtok returned NULL: rift_stage0_process returns the stream
RiftStage0ProcessReturn ==
    /\ stage_pc = "process_loop"
    /\ stage_token_str = <<>>
    /\ stage_pc' = "load_1"
    /\ UNCHANGED <<riftrc, input, load_calls, system, stage0, tokens,
                   stage_token_str, stage_save, stage_stdout>>
    /\ UNCHANGED <<simVars, escapeVars>>

\* main: governance_load_stage(governance, 1)
MainLoadStage1 ==
    /\ stage_pc = "load_1"
    /\ system' = governance_load_stage(system, 1, riftrc).system
    /\ stage_pc' = "load_2"
    /\ load_calls' = Append(load_calls,
          [stage_id |-> 1, ret |-> governance_load_stage(system, 1, riftrc).ret,
           constructed |-> governance_load_stage(system, 1, riftrc).constructed])
    /\ UNCHANGED <<riftrc, input, stage0, tokens, stage_token_str, stage_save,
                   stage_stdout>>
    /\ UNCHANGED <<simVars, escapeVars>>

\* main: governance_load_stage(governance, 2)
MainLoadStage2 ==
    /\ stage_pc = "load_2"
    /\ system' = governance_load_stage(system, 2, riftrc).system
    /\ stage_pc' = "load_3"
    /\ load_calls' = Append(load_calls,
          [stage_id |-> 2, ret |-> governance_load_stage(system, 2, riftrc).ret,
           constructed |-> governance_load_stage(system, 2, riftrc).constructed])
    /\ UNCHANGED <<riftrc, input, stage0, tokens, stage_token_str, stage_save,
                   stage_stdout>>
    /\ UNCHANGED <<simVars, escapeVars>>

\* main: governance_load_stage(governance, 3); with the OUTPUT_FORMATS
\* section the primary format and the simple AST are printed
MainLoadStage3 ==
    /\ stage_pc = "load_3"
    /\ LET r == governance_load_stage(system, 3, riftrc)
           config == r.system.stage_configs[3]
       IN
        /\ system' = r.system
        /\ stage_stdout' =
              IF r.ret /\ HasSectionNamed(config, "OUTPUT_FORMATS")
              THEN << config_section_get(SectionNamed(config, "OUTPUT_FORMATS"),
                                         "primary_format") >>
                   \o SimpleAstLines(tokens)
              ELSE stage_stdout
    /\ stage_pc' = "cleanup"
    /\ load_calls' = Append(load_calls,
          [stage_id |-> 3, ret |-> governance_load_stage(system, 3, riftrc).ret,
           constructed |-> governance_load_stage(system, 3, riftrc).constructed])
    /\ UNCHANGED <<riftrc, input, stage0, tokens, stage_token_str, stage_save>>
    /\ UNCHANGED <<simVars, escapeVars>>

\* main's cleanup: the stream, the processor and the system are destroyed
MainStageCleanup ==
    /\ stage_pc = "cleanup"
    /\ tokens' = [tokens |-> <<>>, capacity |-> 0]
    /\ stage0' = NullProcessor
    /\ system' = NullSystem
    /\ stage_pc' = "exit_0"
    /\ UNCHANGED <<riftrc, input, load_calls, stage_token_str, stage_save, stage_stdout>>
    /\ UNCHANGED <<simVars, escapeVars>>

\* a caller's governance_load_stage(system, stage_id)
GovernanceLoadStage ==
    /\ stage_pc = "caller"
    /\ Len(load_calls) < MaxLoads
    /\ \E stage_id \in StageIds :
          LET r == governance_load_stage(system, stage_id, riftrc) IN
            /\ system' = r.system
            /\ load_calls' = Append(load_calls,
                  [stage_id |-> stage_id, ret |-> r.ret, constructed |-> r.constructed])
    /\ UNCHANGED <<stage_pc, riftrc, input, stage0, tokens, stage_token_str,
                   stage_save, stage_stdout>>
    /\ UNCHANGED <<simVars, escapeVars>>

(***************************************************************************)
(* The escape sequence processor (escape_sequence_handler.txt, first       *)
(* program).  Patterns and the source and target of a mapping are          *)
(* sequences of characters; fault tokens and contexts are compared or      *)
(* copied whole and are kept as strings.  malloc is taken to succeed.      *)
(***************************************************************************)
\* a NULL source or target
NullSequence == <<"(null)">>

escape_processor_create ==
    [mappings |-> <<>>, capacity |-> 20, default_fault_token |-> "[UNKNOWN_ESCAPE]"]

\* escape_processor_add_mapping: the processor it leaves and what it returns
escape_processor_add_mapping(processor, source, target, fault_token, context, priority) ==
    IF source = NullSequence \/ target = NullSequence
    THEN [processor |-> processor, ret |-> FALSE]
    ELSE [processor |->
            [processor EXCEPT
               !.capacity = IF Len(processor.mappings) >= processor.capacity
                            THEN processor.capacity * 2 ELSE processor.capacity,
               !.mappings = Append(processor.mappings,
                  [source_sequence |-> source,
                   target_sequence |-> target,
                   fault_token |-> IF fault_token # NullString THEN fault_token
                                   ELSE processor.default_fault_token,
                   encoding_context |-> IF context # NullString THEN context
                                        ELSE "general",
                   priority |-> priority])],
          ret |-> TRUE]

\* strstr(haystack, needle) != NULL
strstr(haystack, needle) ==
    \E i \in 1..(Len(haystack) - Len(needle) + 1) :
        SubSeq(haystack, i, i + Len(needle) - 1) = needle

\* strncmp(src, find, find_len) == 0
StartsWith(src, find) ==
    Len(src) >= Len(find) /\ SubSeq(src, 1, Len(find)) = find

\* safe_string_replace: every occurrence of find, from the left and without
\* overlap, replaced
RECURSIVE safe_string_replace(_, _, _)
safe_string_replace(source, find, replace) ==
    IF source = <<>> THEN <<>>
    ELSE IF StartsWith(source, find)
    THEN replace \o safe_string_replace(SubSeq(source, Len(find) + 1, Len(source)),
                                        find, replace)
    ELSE <<Head(source)>> \o safe_string_replace(Tail(source), find, replace)

\* the mapping is passed over in the context: the call names a context, and
\* the mapping is for another one and not "general"
MappingSkipped(mapping, context) ==
    /\ context # NullString
    /\ mapping.encoding_context # context
    /\ mapping.encoding_context # "general"

\* the result process_escape_pattern starts from
InitialPatternResult(pattern) ==
    [processed_pattern |-> pattern, transformation_successful |-> TRUE,
     fault_tokens_used |-> "", transformations_applied |-> 0]

NoPatternResult ==
    [processed_pattern |-> <<>>, transformation_successful |-> FALSE,
     fault_tokens_used |-> "", transformations_applied |-> 0]

B4 == <<Backslash, Backslash, Backslash, Backslash>>
B2 == <<Backslash, Backslash>>
B1 == <<Backslash>>

\* the arguments of the nine calls of create_obinexus_escape_processor
ObinexusMappings ==
    << <<B4 \o <<"w">>, B1 \o <<"w">>, "[WORD_CLASS]", "config_to_c", 100>>,
       <<B4 \o <<"d">>, B1 \o <<"d">>, "[DIGIT_CLASS]", "config_to_c", 100>>,
       <<B4 \o <<"s">>, B1 \o <<"s">>, "[SPACE_CLASS]", "config_to_c", 100>>,
       <<B4 \o <<".">>, B1 \o <<".">>, "[DOT_LITERAL]", "config_to_c", 100>>,
       <<B2 \o <<"w">>, <<"[", "a", "-", "z", "A", "-", "Z", "0", "-", "9", "_", "]">>,
         "[WORD_FALLBACK]", "c_to_regex", 90>>,
       <<B2 \o <<"d">>, <<"[", "0", "-", "9", "]">>, "[DIGIT_FALLBACK]", "c_to_regex", 90>>,
       <<B2 \o <<"s">>, <<"[", " ", Backslash, "t", Backslash, "n", Backslash, "r", "]">>,
         "[SPACE_FALLBACK]", "c_to_regex", 90>>,
       <<B2 \o <<".">>, B1 \o <<".">>, "[DOT_FALLBACK]", "c_to_regex", 90>>,
       <<B4, B1, "[BACKSLASH]", "raw_string", 80>> >>

\* the processor after the first n of the calls
RECURSIVE ObinexusProcessorAfter(_)
ObinexusProcessorAfter(n) ==
    IF n = 0 THEN escape_processor_create
    ELSE LET a == ObinexusMappings[n] IN
         escape_processor_add_mapping(ObinexusProcessorAfter(n - 1),
                                      a[1], a[2], a[3], a[4], a[5]).processor

create_obinexus_escape_processor == ObinexusProcessorAfter(Len(ObinexusMappings))

\* test_patterns of demonstrate_escape_processing
TestPatterns ==
    { <<"^", "[", "a", "-", "z", "A", "-", "Z", "_", "]">> \o B4 \o <<"w", "*", "$">>,
      <<"^">> \o B4 \o <<"d", "+", "(">> \o B4 \o <<".">> \o B4 \o <<"d", "+", ")", "?", "$">>,
      <<"^", "[", "+">> \o B4 \o <<"-", "*", "/", "]", "$">>,
      <<"^">> \o B4 \o <<"s", "+", "$">> }

\* most mappings a user of the processor adds
MaxMappings == 3

\* the mappings a user of the processor adds, in any order
MappingInputs ==
    { <<<<"a">>, <<"b">>, NullString, "config_to_c", 100>>,
      <<<<"b">>, <<"c">>, "[B]", "c_to_regex", 90>>,
      <<<<"a", "a">>, <<"a">>, "[AA]", NullString, 80>>,
      <<<<"c">>, <<"a", "a">>, "[C]", "general", 100>> }

\* the patterns and contexts such a user passes to process_escape_pattern
PatternInputs == { <<"a", "a", "b">>, <<"c", "a">>, <<>> }

ContextInputs == { NullString, "config_to_c", "c_to_regex" }

\* the escape processor is not in use
EscapeIdle ==
    /\ escape_pc = "off"
    /\ escape_processor = escape_processor_create
    /\ input_pattern = <<>>
    /\ encoding_context = NullString
    /\ mapping_index = 0
    /\ pattern_result = NoPatternResult
    /\ applied = <<>>

\* a user holds a processor just created and is about to add mappings; or
\* demonstrate_escape_processing holds the processor of
\* create_obinexus_escape_processor and is about to process a test pattern
InitEscape ==
    /\ \/ escape_pc = "add" /\ escape_processor = escape_processor_create
       \/ escape_pc = "demonstrate" /\ escape_processor = create_obinexus_escape_processor
    /\ input_pattern = <<>>
    /\ encoding_context = NullString
    /\ mapping_index = 0
    /\ pattern_result = NoPatternResult
    /\ applied = <<>>

\* a user's escape_processor_add_mapping(processor, ...)
EscapeProcessorAddMapping ==
    /\ escape_pc = "add"
    /\ Len(escape_processor.mappings) < MaxMappings
    /\ \E a \in MappingInputs :
          escape_processor' =
             escape_processor_add_mapping(escape_processor,
                                          a[1], a[2], a[3], a[4], a[5]).processor
    /\ UNCHANGED <<escape_pc, input_pattern, encoding_context, mapping_index,
                   pattern_result, applied>>
    /\ UNCHANGED <<simVars, stageVars>>

\* process_escape_pattern is entered: the result starts as the input pattern
ProcessEscapePatternBegin ==
    /\ \/ /\ escape_pc = "add"
          /\ input_pattern' \in PatternInputs
          /\ encoding_context' \in ContextInputs
       \/ /\ escape_pc = "demonstrate"
          /\ input_pattern' \in TestPatterns
          /\ encoding_context' = "config_to_c"
    /\ pattern_result' = InitialPatternResult(input_pattern')
    /\ mapping_index' = 0
    /\ applied' = <<>>
    /\ escape_pc' = "loop"
    /\ UNCHANGED escape_processor
    /\ UNCHANGED <<simVars, stageVars>>

\* one pass of process_escape_pattern's loop, for mappings[i]
ProcessEscapePatternMapping ==
    /\ escape_pc = "loop"
    /\ mapping_index < Len(escape_processor.mappings)
    /\ LET mapping == escape_processor.mappings[mapping_index + 1] IN
         IF /\ ~MappingSkipped(mapping, encoding_context)
            /\ strstr(pattern_result.processed_pattern, mapping.source_sequence)
         THEN /\ pattern_result' =
                    [pattern_result EXCEPT
                       !.processed_pattern =
                          safe_string_replace(pattern_result.processed_pattern,
                                              mapping.source_sequence,
                                              mapping.target_sequence),
                       !.transformations_applied = pattern_result.transformations_applied + 1]
              /\ applied' = Append(applied, mapping_index + 1)
         ELSE UNCHANGED <<pattern_result, applied>>
    /\ mapping_index' = mapping_index + 1
    /\ UNCHANGED <<escape_pc, escape_processor, input_pattern, encoding_context>>
    /\ UNCHANGED <<simVars, stageVars>>

\* the loop is over: process_escape_pattern returns the result
ProcessEscapePatternReturn ==
    /\ escape_pc = "loop"
    /\ mapping_index = Len(escape_processor.mappings)
    /\ escape_pc' = "returned"
    /\ UNCHANGED <<escape_processor, input_pattern, encoding_context, mapping_index,
                   pattern_result, applied>>
    /\ UNCHANGED <<simVars, stageVars>>

\* demonstrate_escape_processing: the pattern processed in "config_to_c" is
\* processed again in "c_to_regex"
DemonstrateSecondTransformation ==
    /\ escape_pc = "returned"
    /\ encoding_context = "config_to_c"
    /\ input_pattern' = pattern_result.processed_pattern
    /\ encoding_context' = "c_to_regex"
    /\ pattern_result' = InitialPatternResult(pattern_result.processed_pattern)
    /\ mapping_index' = 0
    /\ applied' = <<>>
    /\ escape_pc' = "loop"
    /\ UNCHANGED escape_processor
    /\ UNCHANGED <<simVars, stageVars>>

NextEscape ==
    \/ EscapeProcessorAddMapping
    \/ ProcessEscapePatternBegin
    \/ ProcessEscapePatternMapping
    \/ ProcessEscapePatternReturn
    \/ DemonstrateSecondTransformation

NextStage ==
    \/ GovernanceSystemCreate
    \/ RiftStage0Create
    \/ RiftStage0ProcessBegin
    \/ RiftStage0ProcessToken
    \/ RiftStage0ProcessReturn
    \/ MainLoadStage1
    \/ MainLoadStage2
    \/ MainLoadStage3
    \/ MainStageCleanup
    \/ GovernanceLoadStage

NextSim ==
    \/ RiftLoadGovernance
    \/ RiftTokenizerCreate
    \/ RiftTokenizeBegin
    \/ RiftTokenizeToken
    \/ RiftTokenizeReturn
    \/ RiftParse
    \/ ParseTermEnter
    \/ ParseTermOperator
    \/ ParseTermBinary
    \/ ParseTermReturn
    \/ ParseExpressionOperator
    \/ ParseExpressionBinary
    \/ ParseExpressionReturn
    \/ MainCheckAst
    \/ RiftCoordinateAst
    \/ MainOutputStageCreate
    \/ RiftGenerateOutput
    \/ MainCleanup

\* the standalone pipeline
Init == InitSim /\ StageIdle /\ EscapeIdle

Next == NextSim

Spec == Init /\ [][Next]_vars

\* the standalone pipeline, run to its end: the program is sequential and
\* nothing but its own steps can hold it up
SpecFair == Init /\ [][Next]_vars /\ WF_vars(Next)

\* the stage-bound simulation
InitStageBound == InitStage /\ SimIdle /\ EscapeIdle

SpecStage == InitStageBound /\ [][NextStage]_vars

\* the escape sequence processor
InitEscapeProcessor == InitEscape /\ SimIdle /\ StageIdle

SpecEscape == InitEscapeProcessor /\ [][NextEscape]_vars

(***************************************************************************)
(* Notions the properties are stated in.                                   *)
(***************************************************************************)
\* the tree below a node, as a value: absent, a leaf or a binary operation
Absent == [kind |-> "Absent"]

RECURSIVE TreeAt(_, _)
TreeAt(h, node) ==
    IF node = NULL THEN Absent
    ELSE CASE h[node].type = AST_IDENTIFIER ->
                [kind |-> "Identifier", value |-> Str(h[node].value)]
           [] h[node].type = AST_NUMBER ->
                [kind |-> "Number", value |-> Str(h[node].value)]
           [] OTHER ->
                [kind |-> "BinaryOp", op |-> Str(h[node].value),
                 left |-> TreeAt(h, h[node].left),
                 right |-> TreeAt(h, h[node].right)]

Identifier(v) == [kind |-> "Identifier", value |-> v]
Number(v) == [kind |-> "Number", value |-> v]
BinaryOp(op, l, r) == [kind |-> "BinaryOp", op |-> op, left |-> l, right |-> r]

\* the nodes reachable from a node along left and right
RECURSIVE ReachableFrom(_, _)
ReachableFrom(h, S) ==
    LET T == S \cup {h[n].left : n \in S} \cup {h[n].right : n \in S}
        U == T \ {NULL}
    IN  IF U = S THEN S ELSE ReachableFrom(h, U)

Reachable(h, node) == IF node = NULL THEN {} ELSE ReachableFrom(h, {node})

\* rift_parse has returned and nothing has been destroyed yet
Parsed == pc \in {"check_ast", "coordinate", "output_create", "generate_output", "cleanup"}

\* rift_coordinate_ast has returned and nothing has been destroyed yet
Coordinated == pc \in {"output_create", "generate_output", "cleanup"}

\* the type and value of each token of a stream
TypedValues(ts) ==
    [k \in 1..Len(ts) |-> [type |-> ts[k].type, value |-> ts[k].value]]

\* the lexemes of a text: its maximal runs of characters other than the space
LexemeStarts(s) ==
    {i \in 1..Len(s) : s[i] # " " /\ (i = 1 \/ s[i - 1] = " ")}

LexemeEnd(s, i) ==
    CHOOSE j \in i..Len(s) :
        /\ \A k \in i..j : s[k] # " "
        /\ j = Len(s) \/ s[j + 1] = " "

RECURSIVE LexemesFrom(_, _)
LexemesFrom(s, starts) ==
    IF starts = {} THEN <<>>
    ELSE LET i == CHOOSE m \in starts : \A n \in starts : m <= n
         IN  <<SubSeq(s, i, LexemeEnd(s, i))>> \o LexemesFrom(s, starts \ {i})

LexemesOf(s) == LexemesFrom(s, LexemeStarts(s))

(***************************************************************************)
(* C1 (violated by the code).                                              *)
(***************************************************************************)
\* the rules of the processor whose pattern matches the lexeme
MatchingRules(processor, text) ==
    {i \in 1..processor.pattern_count :
        pattern_matches(processor.token_patterns[i], text)}

\* among the rules M: the one of highest priority, the earliest of them when
\* several share it
SelectedRule(processor, M) ==
    CHOOSE i \in M : \A j \in M :
        \/ processor.token_priorities[i] > processor.token_priorities[j]
        \/ processor.token_priorities[i] = processor.token_priorities[j] /\ i <= j

\* C1: in rift_stage0_process, for every lexeme and every assignment of
\* integer priorities to the rules: a token whose lexeme matches more than
\* one pattern has the kind of the matching rule of highest priority, the
\* earliest of them in rule order when several share that priority, and its
\* priority field is that rule's priority.
C1_HighestPriorityWins ==
    \A k \in 1..Len(tokens.tokens) :
        LET M == MatchingRules(stage0, tokens.tokens[k].value) IN
        Cardinality(M) > 1 =>
            /\ tokens.tokens[k].type = TypeOfPatternIndex(SelectedRule(stage0, M))
            /\ tokens.tokens[k].priority
                  = stage0.token_priorities[SelectedRule(stage0, M)]

\* the part of C1 the code keeps: the lexemes whose matching rule of
\* highest priority has a priority of 0 or more
C1_NonNegativeHolds ==
    \A k \in 1..Len(tokens.tokens) :
        LET M == MatchingRules(stage0, tokens.tokens[k].value) IN
        (Cardinality(M) > 1
            /\ stage0.token_priorities[SelectedRule(stage0, M)] >= 0) =>
            /\ tokens.tokens[k].type = TypeOfPatternIndex(SelectedRule(stage0, M))
            /\ tokens.tokens[k].priority
                  = stage0.token_priorities[SelectedRule(stage0, M)]

\* what C2 says of kinds, for rift_stage0_process: no token of kind Whitespace
C2_StageNoWhitespaceKind ==
    \A k \in 1..Len(tokens.tokens) : tokens.tokens[k].type # TOKEN_WHITESPACE

(***************************************************************************)
(* C5 (corrected).                                                         *)
(***************************************************************************)
\* the values the lines give under a key, in the order of the lines
ValuesAdded(lines, key) ==
    LET HasKey(l) == l.key = key IN
    [k \in 1..Len(SelectSeq(lines, HasKey)) |-> SelectSeq(lines, HasKey)[k].value]

\* the keys looked up: those the files give, and one no file gives
LookupKeys ==
    {ShippedTokenPatterns[k].key : k \in 1..Len(ShippedTokenPatterns)}
        \cup {"custom", "never_added"}

\* C5 as stated: after any sequence of adds to a section, a lookup of a key
\* returns the value of the entry added last under that key, and NULL when
\* the key was never added.
C5_LastInsertWins ==
    system.stage_loaded[0] =>
        \A key \in LookupKeys :
            LET vs == ValuesAdded(riftrc, key) IN
            config_section_get(SectionNamed(system.stage_configs[0], "TOKEN_PATTERNS"), key)
                = IF vs = <<>> THEN NullString ELSE vs[Len(vs)]

\* C5, amended: after any sequence of adds to a section, a lookup of a key
\* returns the value of the entry added first under that key, and NULL when
\* the key was never added; the processor holds the values added first.
C5_FirstInsertWins ==
    system.stage_loaded[0] =>
        /\ \A key \in LookupKeys :
              LET vs == ValuesAdded(riftrc, key) IN
              config_section_get(SectionNamed(system.stage_configs[0], "TOKEN_PATTERNS"), key)
                  = IF vs = <<>> THEN NullString ELSE Head(vs)
        /\ (stage0 # NullProcessor /\ ~Stage0CreateDereferencesNull(NullSystem, riftrc)) =>
              /\ stage0.token_priorities[1]
                    = atoi(Head(ValuesAdded(riftrc, "IDENTIFIER_PRIORITY")))
              /\ stage0.token_patterns[2] = Head(ValuesAdded(riftrc, "NUMBER_PATTERN"))

\* a section holds two different values under one key, and the processor was
\* built from it
C5_Witness ==
    /\ system.stage_loaded[0]
    /\ stage0 # NullProcessor
    /\ ValuesAdded(riftrc, "IDENTIFIER_PRIORITY") = <<"7", "100">>
    /\ config_section_get(SectionNamed(system.stage_configs[0], "TOKEN_PATTERNS"),
                          "IDENTIFIER_PRIORITY") = "7"
    /\ stage0.token_priorities[1] = 7

(***************************************************************************)
(* C2 (violated by the code).                                              *)
(***************************************************************************)
\* C2: for every input made of lexemes separated by one or more ASCII spaces,
\* rift_tokenize emits exactly one token per lexeme, the i-th token's value is
\* the i-th lexeme, no emitted token has kind Whitespace, and an input with a
\* lexeme yields a non-empty stream.  Stated when rift_tokenize has returned.
C2_OneTokenPerLexeme ==
    (entry = "main" /\ pc = "parse") =>
        /\ [k \in 1..Len(stream.tokens) |-> stream.tokens[k].value]
              = LexemesOf(source_input)
        /\ \A k \in 1..Len(stream.tokens) :
              stream.tokens[k].type # TOKEN_WHITESPACE
        /\ LexemesOf(source_input) # <<>> => Len(stream.tokens) > 0

\* the part of C2 the code keeps: the splitting into lexemes
C2_SplittingHolds ==
    (entry = "main" /\ pc = "parse") =>
        /\ [k \in 1..Len(stream.tokens) |-> stream.tokens[k].value]
              = LexemesOf(source_input)
        /\ LexemesOf(source_input) # <<>> => Len(stream.tokens) > 0

(***************************************************************************)
(* C3 (violated by the code).                                              *)
(***************************************************************************)
TreeXPlus2TimesY ==
    BinaryOp("+", Identifier("x"), BinaryOp("*", Number("2"), Identifier("y")))

\* no "*" or "/" node has a "+" or "-" node as a child
MulDivBelowAddSub(h, node) ==
    \A n \in Reachable(h, node) :
        (h[n].type = AST_BINARY_OP /\ h[n].value \in {<<"*">>, <<"/">>}) =>
            \A c \in {h[n].left, h[n].right} \ {NULL} :
                ~(h[c].type = AST_BINARY_OP /\ h[c].value \in {<<"+">>, <<"-">>})

\* C3: parsing "x + 2 * y" yields BinaryOp("+", Identifier("x"),
\* BinaryOp("*", Number("2"), Identifier("y"))) and nodeCount = 5, and in
\* every tree the parser returns each "*" or "/" application is nested below
\* the "+" or "-" applications around it.
C3_ParseXPlus2TimesY ==
    /\ (entry = "main" /\ source_input = SrcXPlus2TimesY /\ Parsed) =>
            TreeAt(heap, ast) = TreeXPlus2TimesY
    /\ (entry = "main" /\ source_input = SrcXPlus2TimesY /\ Coordinated) =>
            coordinator.node_count = 5
    /\ (TypedValues(parser.input_tokens) = TokXPlus2TimesY /\ Parsed) =>
            TreeAt(heap, ast) = TreeXPlus2TimesY
    /\ Parsed => MulDivBelowAddSub(heap, ast)

\* the part of C3 the code keeps: the parser on the classified tokens of
\* "x + 2 * y", and the nesting of "*" and "/" below "+" and "-"
C3_ParserLevelHolds ==
    /\ (TypedValues(parser.input_tokens) = TokXPlus2TimesY /\ Parsed) =>
            TreeAt(heap, ast) = TreeXPlus2TimesY
    /\ (TypedValues(parser.input_tokens) = TokXPlus2TimesY /\ Coordinated) =>
            coordinator.node_count = 5
    /\ Parsed => MulDivBelowAddSub(heap, ast)

(***************************************************************************)
(* C4.                                                                     *)
(***************************************************************************)
IsFactorToken(t) == t.type \in {TOKEN_IDENTIFIER, TOKEN_NUMBER}

\* factor (op factor)* with every op an operator token whose value is in ops
IsChain(ts, ops) ==
    /\ Len(ts) % 2 = 1
    /\ \A k \in 1..Len(ts) :
          IF k % 2 = 1 THEN IsFactorToken(ts[k])
          ELSE ts[k].type = TOKEN_OPERATOR /\ ts[k].value \in ops

LeafOf(t) ==
    IF t.type = TOKEN_IDENTIFIER THEN Identifier(Str(t.value))
    ELSE Number(Str(t.value))

\* (((f1 op f2) op f3) ... op fn) over the first n factors of the chain
RECURSIVE LeftNested(_, _)
LeftNested(ts, n) ==
    IF n = 1 THEN LeafOf(ts[1])
    ELSE BinaryOp(Str(ts[2 * n - 2].value), LeftNested(ts, n - 1), LeafOf(ts[2 * n - 1]))

\* C4: the parser is left-associative at both precedence levels: a chain
\* f1 op f2 ... op fn of factors joined by operators of one level ("+" and
\* "-", or "*" and "/") parses to (((f1 op f2) op f3) ... op fn); "a - b - c"
\* parses to BinaryOp("-", BinaryOp("-", a, b), c).
C4_LeftAssociative ==
    Parsed =>
        /\ (\/ IsChain(parser.input_tokens, {<<"+">>, <<"-">>})
            \/ IsChain(parser.input_tokens, {<<"*">>, <<"/">>})) =>
              /\ TreeAt(heap, ast)
                    = LeftNested(parser.input_tokens, (Len(parser.input_tokens) + 1) \div 2)
              /\ parser.current_position = Len(parser.input_tokens)
        /\ TypedValues(parser.input_tokens) = TokAMinusBMinusC =>
              TreeAt(heap, ast)
                 = BinaryOp("-", BinaryOp("-", Identifier("a"), Identifier("b")),
                            Identifier("c"))

\* "a - b - c" has been parsed
C4_Witness ==
    /\ Parsed
    /\ TypedValues(parser.input_tokens) = TokAMinusBMinusC
    /\ ast # NULL
    /\ heap[ast].type = AST_BINARY_OP
    /\ heap[ast].left # NULL
    /\ heap[heap[ast].left].type = AST_BINARY_OP

(***************************************************************************)
(* C6 (violated by the code).                                              *)
(***************************************************************************)
WhitespaceOnly(s) == \A i \in 1..Len(s) : s[i] \in SpaceChars

SpacesOnly(s) == \A i \in 1..Len(s) : s[i] = " "

Tokenized == pc \in {"parse", "parsing", "check_ast", "exit_1"}

\* C6: an input consisting only of whitespace (or empty) yields a token
\* stream with count 0, and parsing that stream returns an absent (NULL) root
\* without reading any token; the cursor stays at 0.
C6_WhitespaceOnlyInput ==
    (entry = "main" /\ WhitespaceOnly(source_input)) =>
        /\ Tokenized => Len(stream.tokens) = 0
        /\ pc = "parsing" => current_token(parser) = NULL
        /\ pc \in {"check_ast", "exit_1"} =>
              ast = NULL /\ heap = <<>> /\ parser.current_position = 0
        /\ ~Coordinated

\* the part of C6 the code keeps: inputs of ASCII spaces only, and the empty
\* input
C6_SpacesOnlyHolds ==
    (entry = "main" /\ SpacesOnly(source_input)) =>
        /\ Tokenized => Len(stream.tokens) = 0
        /\ pc = "parsing" => current_token(parser) = NULL
        /\ pc \in {"check_ast", "exit_1"} =>
              ast = NULL /\ heap = <<>> /\ parser.current_position = 0
        /\ ~Coordinated

(***************************************************************************)
(* C7.                                                                     *)
(***************************************************************************)
RECURSIVE Spaces(_)
Spaces(n) == IF n = 0 THEN "" ELSE " " \o Spaces(n - 1)

\* the lines of a tree whose root is at depth d
RECURSIVE CanonicalLines(_, _)
CanonicalLines(t, d) ==
    CASE t.kind = "Identifier" ->
            << Spaces(2 * (d + 1)) \o "(Identifier " \o t.value \o ")" >>
      [] t.kind = "Number" ->
            << Spaces(2 * (d + 1)) \o "(Number " \o t.value \o ")" >>
      [] t.kind = "BinaryOp" ->
            << Spaces(2 * (d + 1)) \o "(BinOp " \o t.op >>
            \o CanonicalLines(t.left, d + 1)
            \o CanonicalLines(t.right, d + 1)
            \o << Spaces(2 * (d + 1)) \o ")" >>
      [] OTHER -> <<>>

CanonicalRendering(t) == <<"(AST">> \o CanonicalLines(t, 0) \o <<")">>

RenderingXPlus2TimesY ==
    << "(AST",
       "  (BinOp +",
       "    (Identifier x)",
       "    (BinOp *",
       "      (Number 2)",
       "      (Identifier y)",
       "    )",
       "  )",
       ")" >>

\* C7: every rendering starts with the line "(AST" and ends with the line
\* ")"; a node at depth d is printed on a line indented by 2*(d+1) spaces as
\* "(Identifier v)", "(Number v)" or "(BinOp op"; a BinaryOp prints its left
\* subtree, then its right subtree, then ")" at its own indentation; the tree
\* of "x + 2 * y" renders as the nine lines of RenderingXPlus2TimesY.
C7_CanonicalRendering ==
    pc \in {"generate_output", "cleanup"} =>
        \A k \in 1..Len(stdout) :
            /\ stdout[k] = CanonicalRendering(TreeAt(heap, coordinated_ast))
            /\ Head(stdout[k]) = "(AST"
            /\ stdout[k][Len(stdout[k])] = ")"
            /\ TreeAt(heap, coordinated_ast) = TreeXPlus2TimesY =>
                  stdout[k] = RenderingXPlus2TimesY

\* the tree of "x + 2 * y" has been rendered
C7_Witness ==
    /\ pc = "generate_output"
    /\ Len(stdout) >= 1
    /\ TreeAt(heap, coordinated_ast) = TreeXPlus2TimesY
    /\ stdout[1] = RenderingXPlus2TimesY

(***************************************************************************)
(* C8.                                                                     *)
(***************************************************************************)
\* C8: rendering the same AST twice in a row with the same output stage
\* prints the same lines both times, and a rendering leaves every node of
\* the AST as it was.
C8_RenderingDeterministic ==
    [][ Len(stdout') = Len(stdout) + 1 =>
            /\ heap' = heap
            /\ coordinated_ast' = coordinated_ast
            /\ Len(stdout) >= 1 => stdout'[Len(stdout')] = stdout[Len(stdout)]
      ]_vars

\* a tree with an operator node has been rendered twice
C8_Witness ==
    /\ Len(stdout) = 2
    /\ coordinated_ast # NULL
    /\ heap[coordinated_ast].type = AST_BINARY_OP
    /\ stdout[1] = stdout[2]

(***************************************************************************)
(* C9.                                                                     *)
(***************************************************************************)
\* C9: the coordinator's node_count is the number of nodes reachable from
\* the root it was given, absent children and an absent root counting 0.
C9_NodeCountIsReachable ==
    Coordinated /\ pc # "exit_0" =>
        /\ coordinator.root = coordinated_ast
        /\ coordinator.node_count = Cardinality(Reachable(heap, coordinator.root))
        /\ coordinator.root = NULL => coordinator.node_count = 0

\* a tree with an operator node that lacks its right operand, and with an
\* operator node that has both operands, has been counted
C9_Witness ==
    /\ Coordinated
    /\ coordinator.root # NULL
    /\ coordinator.node_count >= 4
    /\ \E n \in Reachable(heap, coordinator.root) :
          heap[n].type = AST_BINARY_OP /\ heap[n].left # NULL /\ heap[n].right = NULL
    /\ \E n \in Reachable(heap, coordinator.root) :
          heap[n].type = AST_BINARY_OP /\ heap[n].left # NULL /\ heap[n].right # NULL

\* an absent root has been counted
C9_AbsentRootCounted ==
    Coordinated /\ coordinator.root = NULL /\ coordinator.node_count = 0

(***************************************************************************)
(* C10.                                                                    *)
(***************************************************************************)
\* C10: rift_coordinate_ast returns the root it was given, leaves every
\* node's type, value, left and right as they were, and writes nothing but
\* the coordinator's root and node_count.
C10_CoordinateFrame ==
    [][ (pc = "coordinate" /\ pc' # "coordinate") =>
            /\ coordinated_ast' = ast
            /\ heap' = heap
            /\ coordinator'.optimization_passes = coordinator.optimization_passes
            /\ UNCHANGED <<source_input, governance, tokenizer, stream, parser,
                           ast, output_stage, stdout>>
      ]_vars

\* a tree with an operator node has been coordinated
C10_Witness ==
    /\ Coordinated
    /\ coordinated_ast # NULL
    /\ coordinated_ast = ast
    /\ coordinator.root = ast
    /\ heap[ast].type = AST_BINARY_OP
    /\ coordinator.node_count >= 3

(***************************************************************************)
(* C11.                                                                    *)
(***************************************************************************)
\* how far main has come
Rank(p) ==
    CASE p = "load_governance" -> 0
      [] p = "tokenizer_create" -> 1
      [] p = "tokenize" -> 2
      [] p = "tokenize_loop" -> 3
      [] p = "parse" -> 4
      [] p = "parsing" -> 5
      [] p = "check_ast" -> 6
      [] p = "coordinate" -> 7
      [] p = "output_create" -> 8
      [] p = "generate_output" -> 9
      [] p = "cleanup" -> 10
      [] OTHER -> 11

\* the stage a step of main belongs to, by the place the step starts from
StageAt(p) ==
    CASE p \in {"tokenize", "tokenize_loop"} -> "Tokenizer"
      [] p \in {"parse", "parsing"} -> "Parser"
      [] p = "coordinate" -> "ASTCoordinator"
      [] p = "generate_output" -> "OutputRenderer"
      [] OTHER -> "none"

\* what each stage has produced when the next one starts
StageOutputsReady ==
    /\ pc = "parse" => token_str = <<>> /\ stream.capacity > 0 /\ heap = <<>>
    /\ pc \in {"parsing", "check_ast"} => parser.input_tokens = stream.tokens
    /\ pc = "coordinate" =>
          frame = NoFrame /\ ast # NULL /\ coordinated_ast = NULL /\ stdout = <<>>
    /\ pc = "generate_output" =>
          /\ coordinated_ast = ast
          /\ coordinator.root = ast
          /\ coordinator.node_count = Cardinality(Reachable(heap, ast))
          /\ stdout = <<>>
    /\ pc \in {"cleanup", "exit_0"} => Len(stdout) = 1

\* C11: in every run of main the stages execute in the order Tokenizer,
\* Parser, ASTCoordinator, OutputRenderer; a stage starts only when its
\* predecessor has finished and produced its output; each stage runs at most
\* once, and no step of an earlier stage follows a step of a later stage.
C11_StageOrder ==
    [][ entry = "main" =>
            /\ StageOutputsReady
            /\ Rank(pc') >= Rank(pc)
            /\ pc' # pc => Rank(pc') > Rank(pc)
            /\ stream' # stream => StageAt(pc) = "Tokenizer" \/ pc = "cleanup"
            /\ (heap' # heap \/ ast' # ast) => StageAt(pc) = "Parser" \/ pc = "cleanup"
            /\ coordinated_ast' # coordinated_ast => StageAt(pc) = "ASTCoordinator"
            /\ stdout' # stdout => StageAt(pc) = "OutputRenderer"
            /\ (StageAt(pc) # "none" /\ StageAt(pc') # "none" /\ StageAt(pc') # StageAt(pc)) =>
                  <<StageAt(pc), StageAt(pc')>> \in
                     { <<"Tokenizer", "Parser">>, <<"Parser", "ASTCoordinator">>,
                       <<"ASTCoordinator", "OutputRenderer">> }
      ]_vars

\* main has run all four stages and returned 0
C11_Witness ==
    /\ entry = "main"
    /\ pc = "exit_0"
    /\ Len(stdout) = 1
    /\ coordinated_ast # NULL

(***************************************************************************)
(* C12.                                                                    *)
(***************************************************************************)
\* C12: governance_load_stage with an id outside 0..3 returns false and
\* leaves the governance system as it was: no stage_loaded flag and no
\* stage_configs slot is modified.
C12_InvalidStageIdRejected ==
    [][ (Len(load_calls') = Len(load_calls) + 1
            /\ load_calls'[Len(load_calls')].stage_id \notin 0..3) =>
            /\ load_calls'[Len(load_calls')].ret = FALSE
            /\ system'.stage_loaded = system.stage_loaded
            /\ system'.stage_configs = system.stage_configs
            /\ system' = system
      ]_vars

\* ids on both sides of 0..3 were refused by a system that holds a loaded stage
C12_Witness ==
    /\ Len(load_calls) = 3
    /\ load_calls[1].stage_id \in 0..3 /\ load_calls[1].ret
    /\ load_calls[2] = [stage_id |-> 4, ret |-> FALSE, constructed |-> FALSE]
    /\ load_calls[3] = [stage_id |-> -1, ret |-> FALSE, constructed |-> FALSE]
    /\ system.stage_loaded[load_calls[1].stage_id]

(***************************************************************************)
(* C13 (violated by the code).                                             *)
(***************************************************************************)
\* rift_stage0_create has returned or the process has ended in it
Stage0Constructed == stage_pc \notin {"system_create", "stage0_create", "caller", "off"}

\* C13: when a key that rift_stage0_create requires is absent from
\* TOKEN_PATTERNS, the construction of the processor fails with an error
\* returned to the caller (NULL; main ends with status 1): the absent lookup
\* result is never used and no processor with undefined rules is built.
C13_MissingKeyFailsFast ==
    (Stage0Constructed /\ \E key \in RequiredKeys : ValuesAdded(riftrc, key) = <<>>) =>
        /\ stage_pc = "exit_1"
        /\ stage0 = NullProcessor

(***************************************************************************)
(* C14.                                                                    *)
(***************************************************************************)
\* the values of the tokens of a stream
ValuesOf(ts) == [k \in 1..Len(ts) |-> ts[k].value]

\* C14: in rift_stage0_process a lexeme that matches no rule becomes a token
\* of kind Unknown with priority 0; tokenization goes on: the tokens emitted
\* so far are the first lexemes of the input, in order, and when the
\* function returns there is one token for every lexeme.
C14_UnmatchedIsUnknown ==
    stage_pc \in {"process_loop", "load_1", "load_2", "load_3", "cleanup"} =>
        /\ \A k \in 1..Len(tokens.tokens) :
              MatchingRules(stage0, tokens.tokens[k].value) = {} =>
                 /\ tokens.tokens[k].type = TOKEN_UNKNOWN
                 /\ tokens.tokens[k].priority = 0
        /\ Len(tokens.tokens) <= Len(LexemesOf(input))
        /\ ValuesOf(tokens.tokens) = SubSeq(LexemesOf(input), 1, Len(tokens.tokens))
        /\ stage_pc # "process_loop" => ValuesOf(tokens.tokens) = LexemesOf(input)

\* what C14 says of rift_tokenize (part_000), whose tokens have no priority
C14_SimUnmatchedIsUnknown ==
    (entry = "main" /\ pc \in {"tokenize_loop", "parse"}) =>
        /\ \A k \in 1..Len(stream.tokens) :
              (\A i \in 1..Len(tokenizer) :
                  ~matches_pattern(tokenizer[i].pattern, stream.tokens[k].value)) =>
                 stream.tokens[k].type = TOKEN_UNKNOWN
        /\ ValuesOf(stream.tokens) = SubSeq(LexemesOf(source_input), 1, Len(stream.tokens))
        /\ pc = "parse" => ValuesOf(stream.tokens) = LexemesOf(source_input)

\* rift_stage0_process has returned a stream in which a token that matched
\* no rule is followed by a token that matched one
C14_Witness ==
    /\ stage_pc = "load_1"
    /\ \E k \in 1..(Len(tokens.tokens) - 1) :
          /\ MatchingRules(stage0, tokens.tokens[k].value) = {}
          /\ tokens.tokens[k].type = TOKEN_UNKNOWN
          /\ tokens.tokens[k].priority = 0
          /\ MatchingRules(stage0, tokens.tokens[k + 1].value) # {}
          /\ tokens.tokens[k + 1].type # TOKEN_UNKNOWN

(***************************************************************************)
(* C15.                                                                    *)
(***************************************************************************)
\* the rules of a processor as a list: pattern, priority and kind
RulesOf(processor) ==
    [i \in 1..processor.pattern_count |->
        [pattern |-> processor.token_patterns[i],
         priority |-> processor.token_priorities[i],
         kind |-> TypeOfPatternIndex(i)]]

\* the rules whose pattern compiles, in rule order
CompilingRulesOf(processor) ==
    LET Compiles(rule) == RegexCompiles(rule.pattern) IN
    SelectSeq(RulesOf(processor), Compiles)

\* what the classification loop makes of a lexeme with a list of rules all
\* of which compile: the earliest of the matching rules of highest priority
\* above -1, Unknown with priority 0 when there is none
ClassifiedBy(rules, text) ==
    LET M == {i \in 1..Len(rules) :
                /\ rules[i].pattern # NullString
                /\ regexec(rules[i].pattern, text)
                /\ rules[i].priority > -1}
    IN  IF M = {} THEN [type |-> TOKEN_UNKNOWN, priority |-> 0]
        ELSE LET sel == CHOOSE i \in M : \A j \in M :
                            \/ rules[i].priority > rules[j].priority
                            \/ rules[i].priority = rules[j].priority /\ i <= j
             IN  [type |-> rules[sel].kind, priority |-> rules[sel].priority]

\* C15: a rule whose pattern fails to compile behaves as a rule that never
\* matches: no token gets its kind, and every token is classified as it is
\* with that rule removed from the rule list.
C15_MalformedPatternNeverMatches ==
    \A k \in 1..Len(tokens.tokens) :
        /\ \A i \in 1..stage0.pattern_count :
              ~RegexCompiles(stage0.token_patterns[i]) =>
                 tokens.tokens[k].type # TypeOfPatternIndex(i)
        /\ [type |-> tokens.tokens[k].type, priority |-> tokens.tokens[k].priority]
              = ClassifiedBy(CompilingRulesOf(stage0), tokens.tokens[k].value)

\* a token was classified by a processor whose rule of highest priority does
\* not compile, by a rule after it
C15_Witness ==
    /\ Len(tokens.tokens) >= 1
    /\ ~RegexCompiles(stage0.token_patterns[3])
    /\ \A i \in {1, 2, 4} : stage0.token_priorities[3] > stage0.token_priorities[i]
    /\ tokens.tokens[1].type = TOKEN_WHITESPACE
    /\ Cardinality(MatchingRules(stage0, tokens.tokens[1].value)) >= 2

(***************************************************************************)
(* C16.                                                                    *)
(***************************************************************************)
\* the cursor of p lies within its stream, and current_token and
\* advance_token do at p what their contract says
CursorContractAt(p) ==
    LET count == Len(p.input_tokens) IN
    /\ 0 <= p.current_position /\ p.current_position <= count
    /\ p.current_position < count =>
          /\ current_token(p) # NULL
          /\ p.input_tokens[current_token(p)] = p.input_tokens[p.current_position + 1]
          /\ advance_token(p).current_position = p.current_position + 1
          /\ advance_token(p).input_tokens = p.input_tokens
    /\ p.current_position = count =>
          /\ current_token(p) = NULL
          /\ advance_token(p) = p

\* C16: in every state reached during a parse the cursor is within
\* 0..token count, current_token returns the token at the cursor or none when
\* the cursor is at the count, advance_token adds exactly 1 below the count and
\* is a no-op at the count, and no step of the parse moves the cursor back.
C16_CursorContract ==
    [][ pc' = "parsing" =>
          /\ CursorContractAt(parser')
          /\ pc = "parsing" =>
                /\ parser'.input_tokens = parser.input_tokens
                /\ parser'.current_position >= parser.current_position
                /\ parser'.current_position <= parser.current_position + 1 ]_vars

\* a parse that has moved its cursor over a stream of several tokens up to
\* the token count and is still running
C16_Witness ==
    /\ pc = "parsing"
    /\ Len(parser.input_tokens) >= 3
    /\ parser.current_position = Len(parser.input_tokens)
    /\ frame.at = "term_right"

(***************************************************************************)
(* C17.                                                                    *)
(***************************************************************************)
\* the values of the nodes of a tree, left subtree first, then the node
RECURSIVE InOrder(_, _)
InOrder(h, node) ==
    IF node = NULL THEN <<>>
    ELSE InOrder(h, h[node].left) \o <<h[node].value>> \o InOrder(h, h[node].right)

\* the values of the first n tokens of a stream
ValuesUpTo(ts, n) == [k \in 1..n |-> ts[k].value]

\* the token cannot continue an expression: it is no "+", "-", "*" or "/"
CannotContinue(token) ==
    ~ /\ token.type = TOKEN_OPERATOR
      /\ token.value \in {<<"+">>, <<"-">>, <<"*">>, <<"/">>}

\* C17: rift_parse does not require the cursor to reach the end of the
\* stream: when the token after a complete expression cannot continue it
\* (a second factor as in "x y", or an Unknown token), parse returns the tree
\* built from the tokens before it, reports no error and leaves
\* current_position < count.
C17_TrailingTokensIgnored ==
    Parsed =>
        LET ts == parser.input_tokens
            pos == parser.current_position
        IN  /\ InOrder(heap, ast) = ValuesUpTo(ts, pos)
            /\ pos < Len(ts) => CannotContinue(ts[pos + 1])
            /\ \A n \in 1..(Len(ts) - 1) :
                  ( /\ IsChain(SubSeq(ts, 1, n), {<<"+">>, <<"-">>, <<"*">>, <<"/">>})
                    /\ CannotContinue(ts[n + 1]) ) =>
                       /\ pos = n
                       /\ ast # NULL
                       /\ pc # "exit_1"
            /\ TypedValues(ts) = <<Tok(TOKEN_IDENTIFIER, "x"), Tok(TOKEN_IDENTIFIER, "x")>> =>
                  TreeAt(heap, ast) = Identifier("x") /\ pos = 1

\* a parse of "x + 2", an Unknown token and more has returned the tree of
\* "x + 2" with the cursor on the Unknown token
C17_Witness ==
    /\ Parsed
    /\ Len(parser.input_tokens) = 5
    /\ parser.current_position = 3
    /\ parser.input_tokens[4].type = TOKEN_UNKNOWN
    /\ TreeAt(heap, ast) = BinaryOp("+", Identifier("x"), Number("2"))

\* two adjacent factors "x x" have been parsed
C17_AdjacentFactors ==
    /\ Parsed
    /\ TypedValues(parser.input_tokens)
          = <<Tok(TOKEN_IDENTIFIER, "x"), Tok(TOKEN_IDENTIFIER, "x")>>

(***************************************************************************)
(* C18.                                                                    *)
(***************************************************************************)
\* the cursor of p is on an Identifier or a Number
OnFactor(p) ==
    /\ p.current_position < Len(p.input_tokens)
    /\ p.input_tokens[p.current_position + 1].type \in {TOKEN_IDENTIFIER, TOKEN_NUMBER}

\* the leaf parse_factor is to make of a token
LeafNodeOf(token) ==
    [type |-> IF token.type = TOKEN_IDENTIFIER THEN AST_IDENTIFIER ELSE AST_NUMBER,
     value |-> token.value, left |-> NULL, right |-> NULL]

\* C18: parse_factor with the cursor on a token that is neither Identifier
\* nor Number, or with the cursor exhausted, returns no node, creates no node
\* and leaves current_position unchanged; on an Identifier or a Number it
\* advances the cursor by exactly one and returns a leaf of the matching
\* variant that carries the token's value.
C18_ParseFactor ==
    [][ /\ (pc = "parsing" /\ frame.at = "term_enter") =>
            IF OnFactor(parser)
            THEN /\ parser'.current_position = parser.current_position + 1
                 /\ heap' = Append(heap, LeafNodeOf(parser.input_tokens[parser.current_position + 1]))
                 /\ frame'.t_left = Len(heap) + 1
            ELSE /\ parser'.current_position = parser.current_position
                 /\ heap' = heap
                 /\ frame'.t_left = NULL
        /\ (pc = "parsing" /\ frame.at = "term_right") =>
            IF OnFactor(parser)
            THEN /\ parser'.current_position = parser.current_position + 1
                 /\ Len(heap') = Len(heap) + 2
                 /\ SubSeq(heap', 1, Len(heap) + 1)
                       = Append(heap, LeafNodeOf(parser.input_tokens[parser.current_position + 1]))
                 /\ heap'[Len(heap) + 2].right = Len(heap) + 1
            ELSE /\ parser'.current_position = parser.current_position
                 /\ Len(heap') = Len(heap) + 1
                 /\ SubSeq(heap', 1, Len(heap)) = heap
                 /\ heap'[Len(heap) + 1].type = AST_BINARY_OP
                 /\ heap'[Len(heap) + 1].right = NULL ]_vars

\* parse_factor has returned a leaf for "x" and then, called on an Unknown
\* token after "+", no node
C18_Witness ==
    /\ pc = "parsing"
    /\ frame.at = "term_loop"
    /\ frame.site = "right"
    /\ frame.t_left = NULL
    /\ parser.current_position = 2
    /\ Len(parser.input_tokens) >= 3
    /\ parser.input_tokens[3].type = TOKEN_UNKNOWN
    /\ heap = <<LeafNodeOf(Tok(TOKEN_IDENTIFIER, "x"))>>

(***************************************************************************)
(* C19 (corrected).                                                        *)
(***************************************************************************)
\* the nodes of a tree, left subtree first, then the node: the k-th of them
\* is the node made for the k-th token the parse consumed
RECURSIVE InOrderNodes(_, _)
InOrderNodes(h, node) ==
    IF node = NULL THEN <<>>
    ELSE InOrderNodes(h, h[node].left) \o <<node>> \o InOrderNodes(h, h[node].right)

IsOperatorToken(token, ops) ==
    token.type = TOKEN_OPERATOR /\ token.value \in ops

AddSub == {<<"+">>, <<"-">>}
MulDiv == {<<"*">>, <<"/">>}

\* the k-th token is followed by no factor
NoFactorAfter(ts, k) == k = Len(ts) \/ ~IsFactorToken(ts[k + 1])

\* a stream that begins with an operator yields a BinaryOp for it whose left
\* child is absent, within the tree that parse returns
LeadingOperatorLeftAbsent(ts, nodes) ==
    (Len(ts) >= 1 /\ IsOperatorToken(ts[1], AddSub \cup MulDiv)) =>
        /\ ast # NULL
        /\ Len(nodes) >= 1
        /\ heap[nodes[1]].type = AST_BINARY_OP
        /\ heap[nodes[1]].value = ts[1].value
        /\ heap[nodes[1]].left = NULL

\* C19 as stated: a missing operand raises no error and propagates as an
\* absent child: every operator "+", "-", "*", "/" that is not followed by a
\* factor yields a BinaryOp whose right child is absent, a stream that begins
\* with such an operator yields a BinaryOp whose left child is absent, and
\* parse returns that BinaryOp within the root tree.
C19_MissingOperandAbsent ==
    Parsed =>
        LET ts == parser.input_tokens
            pos == parser.current_position
            nodes == InOrderNodes(heap, ast)
        IN  /\ Len(nodes) = pos
            /\ \A k \in 1..pos :
                  (IsOperatorToken(ts[k], AddSub \cup MulDiv) /\ NoFactorAfter(ts, k)) =>
                      /\ heap[nodes[k]].type = AST_BINARY_OP
                      /\ heap[nodes[k]].right = NULL
            /\ LeadingOperatorLeftAbsent(ts, nodes)

\* C19, corrected: as C19, except that a "+" or "-" directly followed by a
\* "*" or "/" has as its right child the BinaryOp subtree of the "*" / "/"
\* operators that follow, in which the BinaryOp of the first of them has an
\* absent left child.
C19_MissingOperandPropagates ==
    Parsed =>
        LET ts == parser.input_tokens
            pos == parser.current_position
            nodes == InOrderNodes(heap, ast)
        IN  /\ Len(nodes) = pos
            /\ \A k \in 1..pos :
                  (IsOperatorToken(ts[k], AddSub \cup MulDiv) /\ NoFactorAfter(ts, k)) =>
                      /\ heap[nodes[k]].type = AST_BINARY_OP
                      /\ IF /\ IsOperatorToken(ts[k], AddSub)
                            /\ k < Len(ts)
                            /\ IsOperatorToken(ts[k + 1], MulDiv)
                         THEN /\ heap[nodes[k]].right # NULL
                              /\ heap[heap[nodes[k]].right].type = AST_BINARY_OP
                              /\ heap[heap[nodes[k]].right].value \in MulDiv
                              /\ nodes[k + 1] \in Reachable(heap, heap[nodes[k]].right)
                              /\ heap[nodes[k + 1]].left = NULL
                         ELSE heap[nodes[k]].right = NULL
            /\ LeadingOperatorLeftAbsent(ts, nodes)

\* "+ x +" has been parsed: the first "+" has no left child, the second no
\* right child, and the second is the root
C19_Witness ==
    /\ Parsed
    /\ TypedValues(parser.input_tokens)
          = <<Tok(TOKEN_OPERATOR, "+"), Tok(TOKEN_IDENTIFIER, "x"), Tok(TOKEN_OPERATOR, "+")>>
    /\ TreeAt(heap, ast) = BinaryOp("+", BinaryOp("+", Absent, Identifier("x")), Absent)

(***************************************************************************)
(* C20 (violated by the code).                                             *)
(***************************************************************************)
\* the stage-bound run has started: rift_stage0_process has begun on the
\* input, and main has not reached its cleanup
StageRunStarted == stage_pc \in {"process_loop", "load_1", "load_2", "load_3"}

\* C20: once the pipeline run has started (the first stage has begun
\* processing input) the governance data is read-only: no later step of the
\* run adds, changes or removes a configuration entry, a stage configuration
\* or a stage_loaded flag.
C20_GovernanceReadOnly ==
    [][ StageRunStarted => system' = system ]_vars

\* what does hold in the stage-bound run: tokenizing writes nothing to the
\* governance system, and a stage configuration, once loaded, stays as it is
C20_LoadedStagesKept ==
    [][ StageRunStarted =>
          /\ stage_pc = "process_loop" => system' = system
          /\ \A id \in 0..3 :
                system.stage_loaded[id] =>
                   /\ system'.stage_loaded[id]
                   /\ system'.stage_configs[id] = system.stage_configs[id] ]_vars

\* in the standalone pipeline the governance entries stay as loaded from the
\* first token to the cleanup: tokenize, parse, coordinate and render do not
\* write them
C20_SimGovernanceReadOnly ==
    [][ (governance # <<>> /\ pc # "cleanup") => governance' = governance ]_vars

(***************************************************************************)
(* C21.                                                                    *)
(***************************************************************************)
\* the places (node, side) of the heap that hold the node n as a child
ParentLinks(h, n) ==
    {link \in (1..Len(h)) \X {"left", "right"} :
        IF link[2] = "left" THEN h[link[1]].left = n ELSE h[link[1]].right = n}

\* the nodes reachable from the children of n
BelowNode(h, n) == Reachable(h, h[n].left) \cup Reachable(h, h[n].right)

\* C21: every structure the parser builds is a tree: after each step of the
\* parse every created node is the child of at most one node and no node is
\* reachable from itself, and at return every node created during the parse
\* is reachable from the single returned root.
C21_ParserBuildsTree ==
    (pc = "parsing" \/ Parsed) =>
        /\ \A n \in 1..Len(heap) :
              /\ Cardinality(ParentLinks(heap, n)) <= 1
              /\ n \notin BelowNode(heap, n)
        /\ Parsed => Reachable(heap, ast) = 1..Len(heap)

\* a parse has returned a root over five nodes, two of them BinaryOps
C21_Witness ==
    /\ Parsed
    /\ Len(heap) = 5
    /\ ast # NULL
    /\ Cardinality({n \in 1..Len(heap) : heap[n].type = AST_BINARY_OP}) = 2
    /\ ParentLinks(heap, ast) = {}

(***************************************************************************)
(* C22.                                                                    *)
(***************************************************************************)
\* every token of the stream is on line 1 and has its ordinal as its column
LineOneColumnOrdinal(ts) ==
    \A k \in 1..Len(ts) : ts[k].line = 1 /\ ts[k].column = k

\* C22: every emitted token has line = 1 and column equal to its 1-based
\* ordinal position in the emitted stream, regardless of how many spaces
\* precede it in the input.
C22_LineAndColumn ==
    LineOneColumnOrdinal(stream.tokens)

\* the same in the stage-bound tokenizer
C22_StageLineAndColumn ==
    LineOneColumnOrdinal(tokens.tokens)

\* rift_tokenize has emitted two tokens from a text whose second lexeme
\* starts after two spaces, at character 4
C22_Witness ==
    /\ entry = "main"
    /\ Tokenized
    /\ Len(stream.tokens) = 2
    /\ Len(source_input) = 4
    /\ source_input[2] = " " /\ source_input[3] = " "
    /\ stream.tokens[2].column = 2

(***************************************************************************)
(* C23 (violated by the code).                                             *)
(***************************************************************************)
\* the rule of the processor that gives the kind
RuleOfKind(type) ==
    CHOOSE i \in 1..4 : TypeOfPatternIndex(i) = type

\* the pattern matches the entire lexeme
MatchesEntire(pattern, text) ==
    RegexCompiles(pattern) /\ RegexCore(pattern, text)

\* C23: a rule matches a lexeme only when its pattern matches the entire
\* lexeme: for every rule pattern, including one written without "^" and
\* "$", a lexeme of which only a proper substring matches the pattern is not
\* classified by that rule.
C23_EntireLexemeMatch ==
    \A k \in 1..Len(tokens.tokens) :
        tokens.tokens[k].type # TOKEN_UNKNOWN =>
            MatchesEntire(stage0.token_patterns[RuleOfKind(tokens.tokens[k].type)],
                          tokens.tokens[k].value)

\* what does hold: with a pattern anchored at both ends, a lexeme is
\* classified by a rule only when the pattern matches all of it
C23_AnchoredEntireLexemeMatch ==
    \A k \in 1..Len(tokens.tokens) :
        LET pattern == stage0.token_patterns[RuleOfKind(tokens.tokens[k].type)] IN
        ( /\ tokens.tokens[k].type # TOKEN_UNKNOWN
          /\ RegexAnchoredStart(pattern) /\ RegexAnchoredEnd(pattern) ) =>
             MatchesEntire(pattern, tokens.tokens[k].value)

(***************************************************************************)
(* C24 (violated by the code).                                             *)
(***************************************************************************)
\* the priority of the k-th mapping applied in the call
AppliedPriority(k) == escape_processor.mappings[applied[k]].priority

\* C24: process_escape_pattern applies the applicable escape mappings in
\* priority order: for every set of mappings and every order in which they
\* were added, a mapping with a higher priority value is applied to the
\* pattern before any mapping with a lower priority value.
C24_AppliedInPriorityOrder ==
    \A a \in 1..Len(applied) : \A b \in 1..Len(applied) :
        a < b => AppliedPriority(a) >= AppliedPriority(b)

\* what does hold: the mappings are applied in the order in which they were
\* added
C24_AppliedInInsertionOrder ==
    \A a \in 1..Len(applied) : \A b \in 1..Len(applied) :
        a < b => applied[a] < applied[b]

\* with the mappings of create_obinexus_escape_processor, which are added in
\* descending priority, the order of application is the priority order
C24_ObinexusInPriorityOrder ==
    escape_processor = create_obinexus_escape_processor => C24_AppliedInPriorityOrder

(***************************************************************************)
(* C25.                                                                    *)
(***************************************************************************)
\* C25: after rift_parse returns, for every token stream, well-formed or
\* not, the number of nodes in the returned tree equals the final cursor
\* position: each consumed token produced exactly one node and no node was
\* created without consuming a token, so
\* count_ast_nodes(root) = current_position <= token count.
C25_NodeCountIsCursor ==
    Parsed =>
        /\ count_ast_nodes(heap, ast) = parser.current_position
        /\ Len(heap) = parser.current_position
        /\ parser.current_position <= Len(parser.input_tokens)

\* a stream of five tokens that begins with an operator has been parsed up to
\* its fifth token, into four nodes
C25_Witness ==
    /\ Parsed
    /\ Len(parser.input_tokens) = 5
    /\ parser.input_tokens[1].type = TOKEN_OPERATOR
    /\ parser.current_position = 4
    /\ count_ast_nodes(heap, ast) = 4

(***************************************************************************)
(* C26 (violated by the code, as C1 is).                                   *)
(***************************************************************************)
\* the token has the kind and the priority of one of the rules M, or, when
\* there is none, is Unknown with priority 0
ClassifiedAmong(processor, token, M) ==
    IF M = {}
    THEN token.type = TOKEN_UNKNOWN /\ token.priority = 0
    ELSE \E i \in M :
            /\ token.type = TypeOfPatternIndex(i)
            /\ token.priority = processor.token_priorities[i]

\* C26: in the stage-bound tokenizer, for every assignment of integer
\* priorities to the rules (zero and negative values included), a lexeme
\* that matches at least one rule is never classified Unknown: its kind is
\* that of some matching rule and its priority field is that rule's
\* priority; Unknown with priority 0 results only when no rule matches.
C26_MatchedNeverUnknown ==
    \A k \in 1..Len(tokens.tokens) :
        ClassifiedAmong(stage0, tokens.tokens[k],
                        MatchingRules(stage0, tokens.tokens[k].value))

\* what does hold: the same with the matching rules of priority above -1 in
\* place of the matching rules
C26_MatchedAboveMinusOne ==
    \A k \in 1..Len(tokens.tokens) :
        ClassifiedAmong(stage0, tokens.tokens[k],
                        {i \in MatchingRules(stage0, tokens.tokens[k].value) :
                            stage0.token_priorities[i] > -1})

(***************************************************************************)
(* C27 (violated by the code).                                             *)
(***************************************************************************)
\* C27: in every tokenizer variant, at every point of a tokenize call and
\* for inputs with any number of lexemes (in particular more than the initial
\* capacity of 10), the stream satisfies count <= capacity and every token
\* is written at an index below capacity.
C27_CountWithinCapacity ==
    /\ Len(stream.tokens) <= stream.capacity
    /\ pc # "crashed"

\* what does hold: the tokenizer of part_000, which doubles the capacity
\* when count reaches it, keeps count <= capacity
C27_ResizingWithinCapacity ==
    entry # "poc" => Len(stream.tokens) <= stream.capacity /\ pc # "crashed"

\* the same for rift_stage0_process
C27_StageWithinCapacity ==
    Len(tokens.tokens) <= tokens.capacity

\* the tokenizer of part_000 has emitted eleven tokens into a stream it has
\* grown to 20
C27_ResizedOnce ==
    entry = "main" /\ Len(stream.tokens) = 11 /\ stream.capacity = 20

(***************************************************************************)
(* C28 (violated by the code, as C1 is).                                   *)
(***************************************************************************)
\* the states of a first-match tokenizer over the rules of the processor
StatesOfProcessor(processor) ==
    [i \in 1..processor.pattern_count |->
        [pattern |-> processor.token_patterns[i], type |-> TypeOfPatternIndex(i)]]

\* the priorities are strictly decreasing in rule order
StrictlyDecreasing(processor) ==
    \A i \in 1..(processor.pattern_count - 1) :
        processor.token_priorities[i] > processor.token_priorities[i + 1]

\* every token of the stage-bound stream has the kind the first-match
\* classification of rift_tokenize gives its lexeme over the same rules
AgreesWithFirstMatch ==
    \A k \in 1..Len(tokens.tokens) :
        tokens.tokens[k].type
           = ClassifyFirstMatch(StatesOfProcessor(stage0), tokens.tokens[k].value)

\* C28: the first-match tokenizer (rift_tokenize) and the priority tokenizer
\* (rift_stage0_process) assign the same kind to every lexeme whenever both
\* use the same match relation and the priorities are strictly decreasing in
\* rule order, as in the shipped configuration (100, 90, 80, 10).
C28_FirstMatchAgreesWithPriority ==
    (Len(tokens.tokens) >= 1 /\ StrictlyDecreasing(stage0)) => AgreesWithFirstMatch

\* what does hold: the same when, in addition, no priority is below 0
C28_AgreesWhenNonNegative ==
    ( /\ Len(tokens.tokens) >= 1
      /\ StrictlyDecreasing(stage0)
      /\ \A i \in 1..stage0.pattern_count : stage0.token_priorities[i] >= 0 )
        => AgreesWithFirstMatch

\* a lexeme has been given a kind other than Unknown by a processor with the
\* shipped priorities 100, 90, 80, 10
C28_ShippedPrioritiesAgree ==
    /\ Len(tokens.tokens) >= 1
    /\ stage0.token_priorities = <<100, 90, 80, 10>>
    /\ tokens.tokens[1].type # TOKEN_UNKNOWN
    /\ AgreesWithFirstMatch

(***************************************************************************)
(* C29.                                                                    *)
(***************************************************************************)
\* the place of the parser in parse_term / parse_expression, ranked so that
\* every step that leaves the cursor where it is goes to a lower rank
PlaceRank ==
    CASE frame.at = "term_enter" -> 5
      [] frame.at = "term_right" -> 4
      [] frame.at = "term_loop" -> 3
      [] frame.at = "expr_build" -> 2
      [] frame.at = "expr_loop" -> 1
      [] OTHER -> 0

\* what is left of the parse: the tokens not yet consumed, then the place
ParseMeasure ==
    6 * (Len(parser.input_tokens) - parser.current_position) + PlaceRank

\* a pass of the loop of parse_term or parse_expression begins
LoopIterationBegins ==
    /\ pc = "parsing"
    /\ \/ frame.at = "term_loop" /\ frame'.at = "term_right"
       \/ frame.at = "expr_loop" /\ frame'.at = "term_enter"

\* C29: rift_parse terminates on every finite token stream: every iteration
\* of the loops in parse_term and parse_expression advances the cursor by at
\* least one, so the number of loop iterations and of created nodes is
\* bounded by the token count.
C29_ParseTerminates ==
    /\ [][ LoopIterationBegins =>
              parser'.current_position >= parser.current_position + 1 ]_vars
    /\ [][ pc = "parsing" =>
              /\ ParseMeasure' < ParseMeasure
              /\ ParseMeasure' >= 0 ]_vars
    /\ [](pc = "parsing" =>
              /\ Len(heap) <= parser.current_position
              /\ parser.current_position <= Len(parser.input_tokens))
    /\ (pc = "parse") ~> Parsed

\* a parse is in the second pass of a loop, with two BinaryOps built or
\* under way and the cursor behind the fourth token
C29_Witness ==
    /\ pc = "parsing"
    /\ frame.at = "term_right"
    /\ parser.current_position = 4
    /\ Len(parser.input_tokens) = 5
    /\ Len(heap) = 3

(***************************************************************************)
(* C30.                                                                    *)
(***************************************************************************)
\* slot i of the governance system: its configuration and its flag
Slot(sys, i) == <<sys.stage_configs[i], sys.stage_loaded[i]>>

\* the calls so far that built a configuration for stage i
ConstructionsOf(i) ==
    {k \in 1..Len(load_calls) : load_calls[k].stage_id = i /\ load_calls[k].constructed}

\* C30: after any sequence of governance_load_stage calls with arbitrary
\* stage ids: stage_loaded[i] is true exactly when stage_configs[i] is set; a
\* successful load of stage i changes only slot i; a stage is never
\* unloaded; and loading an already-loaded stage returns true without
\* replacing or reloading its configuration (each stage configuration is
\* constructed at most once).
C30_LoadedIffConfigured ==
    [][ Len(load_calls') = Len(load_calls) + 1 =>
          LET call == load_calls'[Len(load_calls')] IN
          /\ \A i \in 0..3 :
                /\ system'.stage_loaded[i] <=> system'.stage_configs[i] # NullConfig
                /\ i # call.stage_id => Slot(system', i) = Slot(system, i)
                /\ system.stage_loaded[i] => Slot(system', i) = Slot(system, i)
                /\ Cardinality(ConstructionsOf(i)') <= 1
          /\ (call.stage_id \in 0..3 /\ system.stage_loaded[call.stage_id]) =>
                /\ call.ret
                /\ ~call.constructed
                /\ system' = system
          /\ system'.global_config = system.global_config ]_vars

\* stage 2 has been loaded twice and stage 1 once: the second call for
\* stage 2 returned true and built nothing
C30_Witness ==
    /\ Len(load_calls) = 3
    /\ load_calls[1] = [stage_id |-> 2, ret |-> TRUE, constructed |-> TRUE]
    /\ load_calls[2] = [stage_id |-> 2, ret |-> TRUE, constructed |-> FALSE]
    /\ load_calls[3] = [stage_id |-> 1, ret |-> TRUE, constructed |-> TRUE]
    /\ system.stage_loaded = [i \in 0..3 |-> i \in {1, 2}]

====
